---- MODULE Spec2Model ----
(***************************************************************************)
(* A model of Beanie-Scarf's ScarfDocument (src/scarf/scarf_document.py)   *)
(* and of the helpers in src/scarf/tools it relies on.                     *)
(*                                                                         *)
(* The document store is modelled by what the pipelines and predicates the *)
(* library emits do to a collection: a collection is a sequence of         *)
(* documents in the store's natural order, a predicate is a mapping from   *)
(* stored key to condition, and an aggregation pipeline is a sequence of   *)
(* stages that is run left to right.  Field values and identifiers are     *)
(* small naturals; 0 stands for a missing value.                           *)
(***************************************************************************)
EXTENDS Integers, Sequences, FiniteSets, TLC

VARIABLES
    db,     \* the store: the main collection and the linked collection
    cfg,    \* the class-level declarations of the document classes
    op,     \* the operation whose result is at hand ("init" when none is)
    args,   \* the arguments of that operation
    out,    \* what that operation returned or raised
    held    \* the extra-filters dict the caller passed last and still holds

vars == <<db, cfg, op, args, out, held>>

(***************************************************************************)
(* Bounds of the model.                                                    *)
(***************************************************************************)
MaxDocs == 3    \* main-collection documents that may be stored
MaxSkip == 1    \* largest skip argument
MaxLimit == 2   \* largest limit argument
MaxIds == 3     \* identifiers a link may hold: 1..MaxIds
MaxKeys == 2    \* filter keys a dynamic-filters object fills at most

\* Python's None where an integer is expected.
None == -1
\* The value of a key a document does not hold.
Missing == 0

(***************************************************************************)
(* Python dicts: functions from key to value.                              *)
(***************************************************************************)
EmptyDict == <<>>

\* dict.update / the right-biased union a | b
DictUpdate(a, b) ==
    [k \in (DOMAIN a) \cup (DOMAIN b) |-> IF k \in DOMAIN b THEN b[k] ELSE a[k]]

\* truthiness of a dict
NonEmpty(d) == DOMAIN d # {}

(***************************************************************************)
(* Conditions and predicates, as the store evaluates them.                 *)
(***************************************************************************)
\* beanie's Eq(key, v) is {key: v}
EqCond(v) == [kind |-> "eq", val |-> v, ops |-> EmptyDict]
\* beanie's In(key, vs) is {key: {"$in": vs}}
OpCond(o, v) == [kind |-> "ops", val |-> Missing, ops |-> (o :> v)]

OpHolds(o, x, v) ==
    CASE o = "$in"  -> x \in v
      [] o = "$all" -> x # Missing /\ v \subseteq {x}
      [] o = "$gte" -> x # Missing /\ x >= v
      [] o = "$lte" -> x # Missing /\ x <= v
      [] OTHER      -> FALSE

CondHolds(x, c) ==
    IF c.kind = "eq"
    THEN x # Missing /\ x = c.val
    ELSE \A o \in DOMAIN c.ops : OpHolds(o, x, c.ops[o])

\* The value a document holds under a stored key.  A fetched link is replaced
\* by the linked document, an unfetched one is a reference holding "$id".
FieldVal(d, key) ==
    CASE key = "_id"        -> d.id
      [] key = "name"       -> d.name
      [] key = "city"       -> d.city
      [] key = "owner.$id"  -> IF d.fetched THEN Missing ELSE d.owner
      [] key = "owner._id"  -> IF d.fetched THEN d.owner ELSE Missing
      [] key = "owner.city" -> IF d.fetched THEN d.ocity ELSE Missing
      [] OTHER              -> Missing

Matches(d, q) == \A k \in DOMAIN q : CondHolds(FieldVal(d, k), q[k])

(***************************************************************************)
(* Aggregation stages and their execution by the store.                    *)
(***************************************************************************)
Stage(s, q, n, f, ks) == [stage |-> s, q |-> q, n |-> n, field |-> f, keys |-> ks]

MatchStage(q)   == Stage("$match", q, 0, "", <<>>)
LookupStage(f)  == Stage("$lookup", EmptyDict, 0, f, <<>>)
SortStage(ks)   == Stage("$sort", EmptyDict, 0, "", ks)
SkipStage(n)    == Stage("$skip", EmptyDict, n, "", <<>>)
LimitStage(n)   == Stage("$limit", EmptyDict, n, "", <<>>)
SampleStage(n)  == Stage("$sample", EmptyDict, n, "", <<>>)
GroupStage(f)   == Stage("$group", EmptyDict, 0, f, <<>>)
\* a stage of the caller's projection_pipeline: it reshapes documents and
\* neither adds nor removes any
CallerStage     == Stage("$project", EmptyDict, 0, "caller", <<>>)

Min(a, b) == IF a < b THEN a ELSE b

RECURSIVE SelectDocs(_, _)
SelectDocs(docs, q) ==
    IF docs = <<>> THEN <<>>
    ELSE IF Matches(Head(docs), q)
         THEN <<Head(docs)>> \o SelectDocs(Tail(docs), q)
         ELSE SelectDocs(Tail(docs), q)

\* d1 sorts strictly before d2 under the sort document ks (a sequence of
\* <<key, direction>>, compared key by key)
RECURSIVE Before(_, _, _)
Before(d1, d2, ks) ==
    IF ks = <<>> THEN FALSE
    ELSE LET k == Head(ks)[1]
             dir == Head(ks)[2]
             a == FieldVal(d1, k)
             b == FieldVal(d2, k)
         IN  IF a = b THEN Before(d1, d2, Tail(ks))
             ELSE IF dir = 1 THEN a < b ELSE a > b

RECURSIVE InsertSorted(_, _, _)
InsertSorted(d, docs, ks) ==
    IF docs = <<>> THEN <<d>>
    ELSE IF Before(d, Head(docs), ks)
         THEN <<d>> \o docs
         ELSE <<Head(docs)>> \o InsertSorted(d, Tail(docs), ks)

RECURSIVE SortDocs(_, _)
SortDocs(docs, ks) ==
    IF docs = <<>> THEN <<>>
    ELSE InsertSorted(docs[Len(docs)], SortDocs(SubSeq(docs, 1, Len(docs) - 1), ks), ks)

\* the link-expansion stage: the reference is replaced by the linked document
ExpandDoc(d, linked) ==
    IF d.owner \in DOMAIN linked
    THEN [d EXCEPT !.fetched = TRUE, !.ocity = linked[d.owner]]
    ELSE d

\* the subsequence of docs at the positions in idx
RECURSIVE Pick(_, _, _)
Pick(docs, idx, i) ==
    IF i > Len(docs) THEN <<>>
    ELSE IF i \in idx THEN <<docs[i]>> \o Pick(docs, idx, i + 1)
         ELSE Pick(docs, idx, i + 1)

\* what one stage may turn a sequence of documents into ($sample draws at
\* random: every choice of n documents is a possible outcome)
StageOutcomes(st, docs, linked) ==
    CASE st.stage = "$match"  -> {SelectDocs(docs, st.q)}
      [] st.stage = "$lookup" ->
            {IF st.field = "owner" THEN [i \in 1..Len(docs) |-> ExpandDoc(docs[i], linked)]
             ELSE docs}
      [] st.stage = "$sort"   -> {SortDocs(docs, st.keys)}
      [] st.stage = "$skip"   -> {SubSeq(docs, st.n + 1, Len(docs))}
      [] st.stage = "$limit"  -> {SubSeq(docs, 1, Min(st.n, Len(docs)))}
      [] st.stage = "$sample" ->
            {Pick(docs, idx, 1) : idx \in
                {s \in SUBSET (1..Len(docs)) : Cardinality(s) = Min(st.n, Len(docs))}}
      [] OTHER                -> {docs}

RECURSIVE Outcomes(_, _, _)
Outcomes(pipeline, docs, linked) ==
    IF pipeline = <<>> THEN {docs}
    ELSE UNION {Outcomes(Tail(pipeline), r, linked) :
                    r \in StageOutcomes(Head(pipeline), docs, linked)}

(***************************************************************************)
(* ScarfDocument: pipeline tools.                                          *)
(***************************************************************************)
\* SORT_VALUE_MAPPER: 'asc' -> ASCENDING, 'desc' -> DESCENDING
SortValue(order) == IF order = "asc" THEN 1 ELSE -1

\* get_sort_dict_for_pipeline: the mapper's keys in order, each with its direction
get_sort_dict_for_pipeline(mapper) ==
    [i \in 1..Len(mapper) |-> <<mapper[i][1], SortValue(mapper[i][2])>>]

\* get_sort_pipeline(sort_order, sort_key) of a class that declares a 'time'
\* field or not
get_sort_pipeline(sort_order, sort_key, hasTime) ==
    IF sort_order = "None" \/ (sort_key = "None" /\ sort_order = "asc")
    THEN <<>>
    ELSE IF sort_key \in {"None", "time"}
         THEN <<SortStage(get_sort_dict_for_pipeline(
                    IF hasTime
                    THEN <<<<"time", sort_order>>, <<"_id", sort_order>>>>
                    ELSE <<<<"_id", sort_order>>>>))>>
         ELSE <<SortStage(get_sort_dict_for_pipeline(<<<<sort_key, sort_order>>>>))>>

\* get_skip_limit_pipeline: find().skip(skip).limit(limit) keeps a number only
\* when it is given, and emits a stage only for a number other than 0
get_skip_limit_pipeline(skip, limit) ==
    (IF skip # None /\ skip # 0 THEN <<SkipStage(skip)>> ELSE <<>>)
    \o (IF limit # None /\ limit # 0 THEN <<LimitStage(limit)>> ELSE <<>>)

get_random_sample_pipeline(count) == <<SampleStage(count)>>

\* get_group_all_pipeline(target_field)
get_group_all_pipeline(target_field) == <<GroupStage(target_field)>>

specify_desired_records_pipeline_LimitKept(a, hasTime) ==
    get_sort_pipeline(a.sort_order, a.sort_key, hasTime)
    \o get_skip_limit_pipeline(a.skip, a.limit)
    \o (IF a.random_sample THEN get_random_sample_pipeline(a.limit) ELSE <<>>)

\* the positioning stages advanced_find and find_ids build alike
specify_desired_records_pipeline(a, hasTime) ==
    get_sort_pipeline(a.sort_order, a.sort_key, hasTime)
    \o get_skip_limit_pipeline(a.skip, IF ~a.random_sample THEN a.limit ELSE None)
    \o (IF a.random_sample THEN get_random_sample_pipeline(a.limit) ELSE <<>>)

NotLimitNoneOnly(limit) == limit = None

\* Python's `not limit`: None and 0 are both falsy
NotLimit(limit) == limit = None \/ limit = 0

(***************************************************************************)
(* ScarfDocument.advanced_find.                                            *)
(***************************************************************************)
\* AdvancedFilters(pre_fetch=filters) if isinstance(filters, dict) else filters
NormalizeFilters(f) ==
    IF f.kind = "dict" THEN [kind |-> "adv", pre |-> f.pre, post |-> EmptyDict] ELSE f

special_nesting_depths_NeverWins(a, c) ==
    IF a.ignore_always_and_never_fetch_fields THEN EmptyDict
    ELSE DictUpdate(DictUpdate([f \in c.always_fetch |-> 1], [f \in c.never_fetch |-> 0]),
                    a.nesting_depths_per_field)

\* special_nesting_depths_per_field: None (modelled as the empty mapping, which
\* is as falsy) when the caller opts out, else never-fetch at 0, overridden by
\* always-fetch at 1, overridden by the caller's map
special_nesting_depths(a, c) ==
    IF a.ignore_always_and_never_fetch_fields THEN EmptyDict
    ELSE DictUpdate(DictUpdate([f \in c.never_fetch |-> 0], [f \in c.always_fetch |-> 1]),
                    a.nesting_depths_per_field)

\* find(q).build_aggregation_pipeline() without link fetching: one $match
\* stage when the predicate is not empty
FindPipeline(q) == IF NonEmpty(q) THEN <<MatchStage(q)>> ELSE <<>>

\* find(q, fetch_links=True, nesting_depth, nesting_depths_per_field)
\* .build_aggregation_pipeline(): a lookup for every link field whose depth is
\* not 0, then the $match stage
FetchPipeline(q, links, nesting_depth, per_field) ==
    LET depth(f) == IF f \in DOMAIN per_field THEN per_field[f] ELSE nesting_depth
        RECURSIVE lookups(_)
        lookups(fs) ==
            IF fs = <<>> THEN <<>>
            ELSE (IF depth(Head(fs)) = None \/ depth(Head(fs)) > 0
                  THEN <<LookupStage(Head(fs))>> ELSE <<>>) \o lookups(Tail(fs))
    IN  lookups(links) \o FindPipeline(q)

FinalPipelineSwapped(pre_fetch_pipeline, fetch_pipeline, positioning, projection, post) ==
    IF NonEmpty(post)
    THEN pre_fetch_pipeline \o positioning \o fetch_pipeline \o projection
    ELSE pre_fetch_pipeline \o fetch_pipeline \o positioning \o projection

FinalPipelineProjectionFirst(pre_fetch_pipeline, fetch_pipeline, positioning, projection, post) ==
    IF NonEmpty(post)
    THEN pre_fetch_pipeline \o fetch_pipeline \o positioning \o projection
    ELSE pre_fetch_pipeline \o projection \o positioning \o fetch_pipeline

\* final_pipeline of the general path
FinalPipeline(pre_fetch_pipeline, fetch_pipeline, positioning, projection, post) ==
    IF NonEmpty(post)
    THEN pre_fetch_pipeline \o fetch_pipeline \o positioning \o projection
    ELSE pre_fetch_pipeline \o positioning \o fetch_pipeline \o projection

Raised(e) == [error |-> e, path |-> "none", pipeline |-> <<>>, depths |-> EmptyDict]

\* advanced_find up to the query it builds: the error it raises, or the path
\* taken, the pipeline the store is asked to run and the per-field depths the
\* link-expansion query is given
AdvancedFindQuery(a, c) ==
    IF a.random_sample /\ NotLimit(a.limit) THEN Raised("ValueError")
    ELSE
    LET filters == NormalizeFilters(a.filters)
        projection_pipeline == a.projection_pipeline
    IN
    IF ~a.fetch_links /\ filters.kind = "none" THEN Raised("AttributeError")
    ELSE IF ~a.fetch_links /\ NonEmpty(filters.post) THEN Raised("ValueError")
    ELSE
    LET positioning == specify_desired_records_pipeline(a, c.has_time)
        special == special_nesting_depths(a, c)
    IN
    IF ~a.fetch_links /\ ~NonEmpty(special)
    THEN [error |-> "none", path |-> "fast", depths |-> EmptyDict,
          pipeline |-> FindPipeline(DictUpdate(filters.pre, filters.post))
                       \o positioning \o projection_pipeline]
    ELSE IF filters.kind = "none" THEN Raised("AttributeError")
    ELSE
    LET pre_fetch_pipeline == FindPipeline(filters.pre)
        per_field == IF NonEmpty(special) THEN special ELSE a.nesting_depths_per_field
        fetch_pipeline ==
            FetchPipeline(filters.post, c.links,
                          IF a.fetch_links THEN a.nesting_depth ELSE 0, per_field)
    IN  [error |-> "none", path |-> "general", depths |-> per_field,
         pipeline |-> FinalPipeline(pre_fetch_pipeline, fetch_pipeline, positioning,
                                    projection_pipeline, filters.post)]

(***************************************************************************)
(* ScarfDocument.find_ids.                                                 *)
(***************************************************************************)
\* the documents a find_ids pipeline groups: get_projection_pipeline({'id'},
\* links_are_fetched=False) keeps '_id' alone, as a string ('$toString')
RECURSIVE PushValues(_, _, _)
PushValues(docs, id_field, as_str) ==
    IF docs = <<>> THEN <<>>
    ELSE LET d == Head(docs)
             pushed == IF as_str THEN id_field = "_id" ELSE FieldVal(d, id_field) # Missing
             v == IF as_str THEN ToString(d.id) ELSE FieldVal(d, id_field)
         IN  (IF pushed THEN <<v>> ELSE <<>>) \o PushValues(Tail(docs), id_field, as_str)

\* get_projection_pipeline({'id'}, links_are_fetched=False): one $project
\* stage that keeps '_id', as a string
IdProjectionStage == Stage("$project", EmptyDict, 0, "_id", <<>>)

\* the query find_ids builds: find(filters) and the final pipeline aggregated
FindIdsPipeline(a, hasTime) ==
    FindPipeline(a.filters)
    \o specify_desired_records_pipeline(a, hasTime)
    \o (IF a.return_as_str THEN <<IdProjectionStage>> ELSE <<>>)
    \o get_group_all_pipeline(a.id_field)

\* find_ids: the error it raises, or the lists it may return from a collection
FindIdsOutcomes(a, docs, linked, hasTime) ==
    IF a.random_sample /\ NotLimit(a.limit)
    THEN {[error |-> "ValueError", pipeline |-> <<>>, results |-> <<>>]}
    ELSE LET positioning == specify_desired_records_pipeline(a, hasTime)
             filters == a.filters
         IN  {[error |-> "none", pipeline |-> FindIdsPipeline(a, hasTime),
               results |-> PushValues(r, a.id_field, a.return_as_str)] :
                r \in Outcomes(FindPipeline(filters) \o positioning, docs, linked)}

\* find_ids(filters) with every other argument left at its default
FindIdsArgs(filters) ==
    [filters |-> filters, sort_key |-> "None", sort_order |-> "None", skip |-> None,
     limit |-> None, random_sample |-> FALSE, return_as_str |-> FALSE, id_field |-> "_id"]

FindIds(filters, docs) ==
    (CHOOSE r \in FindIdsOutcomes(FindIdsArgs(filters), docs, EmptyDict, FALSE) : TRUE).results

(***************************************************************************)
(* The store and the classes of the model.                                 *)
(***************************************************************************)
Document(id, name, city, owner) ==
    [id |-> id, name |-> name, city |-> city, owner |-> owner,
     fetched |-> FALSE, ocity |-> Missing]

\* the i-th document the main collection may hold: a name and a link 'owner'
MainDoc(i) ==
    Document(i, IF i % 4 \in {1, 2} THEN 1 ELSE 2, Missing,
             IF i % 4 \in {2, 3} THEN 1 ELSE 2)

\* the linked collection: two documents, of city 1 and of city 2
LinkedDocs == <<Document(1, 1, 1, Missing), Document(2, 2, 2, Missing)>>

\* the linked collection as the link-expansion stage reads it: id -> city
LinkedCities(docs) ==
    [i \in {docs[j].id : j \in 1..Len(docs)} |->
        (CHOOSE d \in {docs[j] : j \in 1..Len(docs)} : d.id = i).city]

RECURSIVE SeqOfSet(_, _, _)
SeqOfSet(S, i, n) ==
    IF i > n THEN <<>>
    ELSE (IF i \in S THEN <<MainDoc(i)>> ELSE <<>>) \o SeqOfSet(S, i + 1, n)

\* a LinkInfo declaration
LinkInfo(field_name, is_list, validate) ==
    [field_name |-> field_name, is_list |-> is_list, validate |-> validate]

\* the class-level declarations of the main document class: a link 'owner'
\* and a list of links 'helpers' to the linked class, both validated, and a
\* link 'editor' that is not
MainClass ==
    [has_time |-> FALSE, links |-> <<"owner">>,
     always_fetch |-> {}, never_fetch |-> {},
     linked_fields_info |-> <<LinkInfo("owner", FALSE, TRUE),
                              LinkInfo("helpers", TRUE, TRUE),
                              LinkInfo("editor", FALSE, FALSE)>>,
     link_info_module |-> "link_info"]

(***************************************************************************)
(* Arguments the operations are called with.                               *)
(***************************************************************************)
NoFilters == [kind |-> "none", pre |-> EmptyDict, post |-> EmptyDict]

PreFetchPredicates == {EmptyDict, "name" :> EqCond(1)}
PostFetchPredicates == {EmptyDict, "owner.city" :> EqCond(1)}

FiltersArgs ==
    {NoFilters}
    \cup {[kind |-> "dict", pre |-> p, post |-> EmptyDict] : p \in PreFetchPredicates}
    \cup {[kind |-> "adv", pre |-> p, post |-> q] :
            p \in PreFetchPredicates, q \in PostFetchPredicates}

AdvancedFindArgs ==
    [filters : FiltersArgs,
     sort_key : {"None", "name"},
     sort_order : {"None", "asc", "desc"},
     skip : {None} \cup 0..MaxSkip,
     limit : {None} \cup 0..MaxLimit,
     projection_pipeline : {<<>>, <<CallerStage>>},
     fetch_links : BOOLEAN,
     nesting_depth : {None},
     nesting_depths_per_field : {EmptyDict, "owner" :> 0, "helpers" :> 1},
     ignore_always_and_never_fetch_fields : BOOLEAN,
     random_sample : BOOLEAN]

FindIdsCallArgs ==
    [filters : PreFetchPredicates,
     sort_key : {"None", "name"},
     sort_order : {"None", "asc", "desc"},
     skip : {None} \cup 0..MaxSkip,
     limit : {None} \cup 0..MaxLimit,
     random_sample : BOOLEAN,
     return_as_str : BOOLEAN,
     id_field : {"_id", "name", "owner.$id"}]

(***************************************************************************)
(* The operations as actions.                                              *)
(***************************************************************************)
\* await cls.advanced_find(**a) on the main collection
AdvancedFind ==
    /\ op = "init"
    /\ \E a \in AdvancedFindArgs :
        LET q == AdvancedFindQuery(a, cfg) IN
        \E r \in (IF q.error = "none"
                  THEN Outcomes(q.pipeline, db.main, LinkedCities(db.linked))
                  ELSE {<<>>}) :
            /\ op' = "advanced_find"
            /\ args' = a
            /\ out' = [error |-> q.error, path |-> q.path, pipeline |-> q.pipeline,
                       depths |-> q.depths, results |-> r]
            /\ UNCHANGED <<db, cfg, held>>

\* await cls.find_ids(**a) on the main collection
FindIdsCall ==
    /\ op = "init"
    /\ \E a \in FindIdsCallArgs :
        \E r \in FindIdsOutcomes(a, db.main, LinkedCities(db.linked), cfg.has_time) :
            /\ op' = "find_ids"
            /\ args' = a
            /\ out' = [error |-> r.error, path |-> "none", pipeline |-> r.pipeline,
                       depths |-> EmptyDict, results |-> r.results]
            /\ UNCHANGED <<db, cfg, held>>

NoCall ==
    [error |-> "none", path |-> "none", pipeline |-> <<>>, depths |-> EmptyDict,
     results |-> <<>>]

\* the caller takes the result or the exception; the next call may be made
Return ==
    /\ op # "init"
    /\ op' = "init"
    /\ args' = <<>>
    /\ out' = NoCall
    /\ UNCHANGED <<db, cfg, held>>

\* any main collection of at most MaxDocs documents, in natural order
InitFind ==
    /\ db \in {[main |-> SeqOfSet(S, 1, MaxDocs), linked |-> LinkedDocs] :
                S \in SUBSET (1..MaxDocs)}
    /\ cfg = MainClass
    /\ op = "init"
    /\ args = <<>>
    /\ out = NoCall
    /\ held = EmptyDict

NextFind == AdvancedFind \/ FindIdsCall \/ Return

SpecFind == InitFind /\ [][NextFind]_vars

(***************************************************************************)
(* Existence checks: get_set_of_object_ids, check_records_existence,       *)
(* validate_records_existence.                                             *)
(***************************************************************************)
Range(seq) == {seq[i] : i \in 1..Len(seq)}

\* an argument record_id_or_list: one ObjectId, a list, a set, a tuple or None
IdInput(type, items) == [type |-> type, items |-> items]

\* Python's `not record_id_or_list`: None and the empty collections are falsy
Falsy(x) == x.type = "none" \/ (x.type \in {"list", "set", "tuple"} /\ x.items = <<>>)

\* get_set_of_object_ids raises ValueError for anything but a set, a list or
\* an ObjectId
ObjectIdsError(x) == x.type \notin {"set", "list", "oid"}

get_set_of_object_ids(x) ==
    IF x.type \in {"set", "list"} THEN Range(x.items) ELSE {x.items[1]}

check_records_existence_EmptyList(x, passed, filters, docs) ==
    IF Falsy(x)
    THEN [error |-> "none", none |-> TRUE, missing |-> {}, filters |-> filters]
    ELSE IF ObjectIdsError(x)
    THEN [error |-> "ValueError", none |-> FALSE, missing |-> {},
          filters |-> IF passed THEN filters ELSE EmptyDict]
    ELSE
    LET records_list == get_set_of_object_ids(x)
        updated == DictUpdate(IF passed THEN filters ELSE EmptyDict,
                              "_id" :> OpCond("$in", records_list))
        found_records_ids == Range(FindIds(updated, docs))
    IN  [error |-> "none", none |-> FALSE,
         missing |-> records_list \ found_records_ids, filters |-> updated]

\* check_records_existence(record_id_or_list, filters) on a collection: the
\* error raised, or whether None is returned, the ids of the list returned,
\* and the filters dict as the call leaves it (`passed` tells whether the
\* caller passed a dict)
check_records_existence(x, passed, filters, docs) ==
    IF Falsy(x)
    THEN [error |-> "none", none |-> TRUE, missing |-> {}, filters |-> filters]
    ELSE IF ObjectIdsError(x)
    THEN [error |-> "ValueError", none |-> FALSE, missing |-> {},
          filters |-> IF passed THEN filters ELSE EmptyDict]
    ELSE
    LET records_list == get_set_of_object_ids(x)
        updated == DictUpdate(IF passed THEN filters ELSE EmptyDict,
                              "_id" :> OpCond("$in", records_list))
        found_records_ids == Range(FindIds(updated, docs))
        missing_records == records_list \ found_records_ids
    IN  IF found_records_ids # {}
        THEN [error |-> "none", none |-> missing_records = {},
              missing |-> missing_records, filters |-> updated]
        ELSE [error |-> "none", none |-> FALSE,
              missing |-> records_list, filters |-> updated]

\* validate_records_existence: ValueError naming the missing ids when
\* check_records_existence returns a non-empty list
validate_records_existence(x, passed, filters, docs) ==
    LET r == check_records_existence(x, passed, filters, docs)
    IN  IF r.error = "none" /\ ~r.none /\ r.missing # {}
        THEN [r EXCEPT !.error = "ValueError"]
        ELSE r

\* every list that holds the elements of S once each (list(set) comes in an
\* order the caller cannot rely on)
RECURSIVE ListsOf(_)
ListsOf(S) ==
    IF S = {} THEN {<<>>}
    ELSE UNION {{<<x>> \o l : l \in ListsOf(S \ {x})} : x \in S}

(***************************************************************************)
(* The model validator validate_linked_values_existence, run when a record *)
(* is constructed.                                                         *)
(***************************************************************************)
\* The validator is a plain function and validate_records_existence is a
\* coroutine function: the call on line 41 creates a coroutine object that
\* nothing awaits, so no check runs.  Which LinkInfo class the declarations
\* are instances of decides whether the loop reaches that call at all:
\*   "link_info"        utils/link_info.py: linked_class, validate_dynamically
\*   "dependency_info"  utils/dependency_info.py: linked_document, validate_existence
\*   "both"             a LinkInfo holding both names the validator reads
\* It returns the error raised and the coroutines created and never awaited.
RECURSIVE LinkedValuesLoop(_, _, _)
LinkedValuesLoop(infos, module, record) ==
    IF infos = <<>> THEN [error |-> "none", unawaited |-> <<>>]
    ELSE LET info == Head(infos) IN
         IF module = "dependency_info"
         THEN [error |-> "AttributeError", unawaited |-> <<>>]
         ELSE IF ~info.validate
         THEN LinkedValuesLoop(Tail(infos), module, record)
         ELSE IF module = "link_info"
         THEN [error |-> "AttributeError", unawaited |-> <<>>]
         ELSE LET rest == LinkedValuesLoop(Tail(infos), module, record)
              IN  [error |-> rest.error,
                   unawaited |-> <<[field |-> info.field_name,
                                    ids |-> record[info.field_name]]>> \o rest.unawaited]

validate_linked_values_existence(record, c) ==
    LinkedValuesLoop(c.linked_fields_info, c.link_info_module, record)

(***************************************************************************)
(* Claims about advanced_find and find_ids (checked under SpecFind).       *)
(***************************************************************************)
IdsOf(docs) == [i \in 1..Len(docs) |-> docs[i].id]

\* the skip/limit window of a sequence: skip None or 0 skips nothing, limit
\* None or 0 bounds nothing
Window(seq, skip, limit) ==
    LET from == IF skip = None THEN 0 ELSE skip
        upto == IF limit = None \/ limit = 0 THEN Len(seq) ELSE Min(Len(seq), from + limit)
    IN  SubSeq(seq, from + 1, upto)

\* whether the call expands the link before the post-fetch predicate is read
LinkExpanded == \E i \in 1..Len(out.pipeline) : out.pipeline[i].stage = "$lookup"

\* the document as the post-fetch predicate sees it in this call
PostView(d) == IF LinkExpanded THEN ExpandDoc(d, LinkedCities(db.linked)) ELSE d

PassesBoth(d) ==
    Matches(d, args.filters.pre) /\ Matches(PostView(d), args.filters.post)

RECURSIVE KeepPassing(_)
KeepPassing(docs) ==
    IF docs = <<>> THEN <<>>
    ELSE (IF PassesBoth(Head(docs)) THEN <<Head(docs)>> ELSE <<>>) \o KeepPassing(Tail(docs))

\* the main collection in the order the call asks for
InCallOrder ==
    LET sp == get_sort_pipeline(args.sort_order, args.sort_key, cfg.has_time)
    IN  IF sp = <<>> THEN db.main ELSE SortDocs(db.main, sp[1].keys)

\* the records that pass both predicates and lie past the skip
PassingPastSkip == Window(KeepPassing(InCallOrder), args.skip, None)

PostFetchCall ==
    /\ op = "advanced_find"
    /\ out.error = "none"
    /\ args.fetch_links
    /\ NonEmpty(args.filters.post)

\* C1: with fetch_links and a non-empty post-fetch predicate, no returned record
\* fails the post-fetch predicate, and the result is exactly the skip/limit
\* window over the records passing both predicates (a random sample is drawn
\* from those records past the skip).
C1_FilterBeforeWindow ==
    PostFetchCall =>
        /\ \A i \in 1..Len(out.results) :
                \E j \in 1..Len(db.main) :
                    db.main[j].id = out.results[i].id /\ PassesBoth(db.main[j])
        /\ ~args.random_sample =>
                IdsOf(out.results) = Window(IdsOf(KeepPassing(InCallOrder)), args.skip, args.limit)
        /\ args.random_sample =>
                /\ Len(out.results) = Min(args.limit, Len(PassingPastSkip))
                /\ \A i \in 1..Len(out.results) :
                      \E k \in 1..Len(PassingPastSkip) :
                            PassingPastSkip[k].id = out.results[i].id

\* C1 witness: a paged call with a post-fetch predicate returned a record
\* although the first document in call order fails the predicate, so that the
\* page taken before the filter would have been another one
C1_Witness ==
    /\ PostFetchCall
    /\ ~args.random_sample
    /\ args.limit = 1
    /\ Len(out.results) = 1
    /\ Len(InCallOrder) > 1
    /\ ~PassesBoth(InCallOrder[1])

\* the stages of the given kinds a pipeline holds, in order, the caller's aside
RECURSIVE StagesOf(_, _)
StagesOf(pipeline, kinds) ==
    IF pipeline = <<>> THEN <<>>
    ELSE (IF Head(pipeline).stage \in kinds /\ Head(pipeline).field # "caller"
          THEN <<Head(pipeline)>> ELSE <<>>) \o StagesOf(Tail(pipeline), kinds)

RECURSIVE CallerStagesOf(_)
CallerStagesOf(pipeline) ==
    IF pipeline = <<>> THEN <<>>
    ELSE (IF Head(pipeline).field = "caller" THEN <<Head(pipeline)>> ELSE <<>>)
         \o CallerStagesOf(Tail(pipeline))

PositioningKinds == {"$sort", "$skip", "$limit", "$sample"}

\* the place of a stage in the order the general path must follow
StageRank(st, pre, post) ==
    LET positioning == st.stage \in PositioningKinds
        expansion == st.stage = "$lookup" \/ (st.stage = "$match" /\ st.q = post /\ NonEmpty(post))
    IN  CASE st.field = "caller" -> 4
          [] st.stage = "$match" /\ st.q = pre /\ NonEmpty(pre) -> 1
          [] expansion   -> IF NonEmpty(post) THEN 2 ELSE 3
          [] positioning -> IF NonEmpty(post) THEN 3 ELSE 2
          [] OTHER -> 0

GeneralPathCall == op = "advanced_find" /\ out.error = "none" /\ out.path = "general"

\* C2: on the general path the pipeline is pre-fetch filter, link expansion,
\* positioning when a post-fetch predicate is present, and pre-fetch filter,
\* positioning, link expansion when none is; the caller's projection stages
\* come last, and every stage of every fragment appears exactly once.
C2_StageOrder ==
    GeneralPathCall =>
        LET f == NormalizeFilters(args.filters)
            p == out.pipeline
        IN  /\ \A i, j \in 1..Len(p) :
                    i < j => StageRank(p[i], f.pre, f.post) <= StageRank(p[j], f.pre, f.post)
            /\ \A i \in 1..Len(p) : StageRank(p[i], f.pre, f.post) > 0
            /\ StagesOf(p, PositioningKinds) = specify_desired_records_pipeline(args, cfg.has_time)
            /\ CallerStagesOf(p) = args.projection_pipeline
            /\ StagesOf(p, {"$match"}) =
                    (IF NonEmpty(f.pre) THEN <<MatchStage(f.pre)>> ELSE <<>>)
                    \o (IF NonEmpty(f.post) THEN <<MatchStage(f.post)>> ELSE <<>>)
            /\ Len(StagesOf(p, {"$lookup"})) <= Len(cfg.links)
            /\ Len(p) = Len(StagesOf(p, PositioningKinds)) + Len(CallerStagesOf(p))
                        + Len(StagesOf(p, {"$match"})) + Len(StagesOf(p, {"$lookup"}))

\* C2 witness: a general-path call without post-fetch predicate whose pipeline
\* holds a pre-fetch filter, positioning stages, a link expansion and a
\* caller's projection stage
C2_Witness ==
    /\ GeneralPathCall
    /\ ~NonEmpty(NormalizeFilters(args.filters).post)
    /\ NonEmpty(NormalizeFilters(args.filters).pre)
    /\ Len(StagesOf(out.pipeline, {"$lookup"})) = 1
    /\ Len(StagesOf(out.pipeline, PositioningKinds)) >= 2
    /\ Len(CallerStagesOf(out.pipeline)) = 1

PostWithoutFetch ==
    /\ op = "advanced_find"
    /\ NonEmpty(NormalizeFilters(args.filters).post)
    /\ ~args.fetch_links

\* C3 as claimed: the invalid-argument error is raised exactly when
\* random_sample is set and limit is not set or, for advanced_find, when a
\* post-fetch predicate comes without fetch_links.
C3_Original ==
    op \in {"advanced_find", "find_ids"} =>
        (out.error = "ValueError"
            <=> ((args.random_sample /\ args.limit = None) \/ PostWithoutFetch))

\* C3 as amended: a limit of 0 counts as no limit.  The error is raised exactly
\* when random_sample is set and limit is None or 0 or, for advanced_find, when
\* a post-fetch predicate comes without fetch_links; no query is built then.
C3_InvalidArguments ==
    op \in {"advanced_find", "find_ids"} =>
        /\ out.error = "ValueError"
            <=> ((args.random_sample /\ (args.limit = None \/ args.limit = 0))
                 \/ PostWithoutFetch)
        /\ out.error = "ValueError" =>
                out.pipeline = <<>> /\ out.results = <<>> /\ out.path = "none"

\* C3 witness: find_ids raised for a random sample without limit, or
\* advanced_find raised for a post-fetch predicate without fetch_links
C3_Witness ==
    /\ out.error = "ValueError"
    /\ op = "advanced_find"
    /\ PostWithoutFetch
    /\ ~args.random_sample

(***************************************************************************)
(* Constructing a record of the main class (SpecConstruct).                *)
(***************************************************************************)
\* the i-th document the linked collection may hold
LinkedDoc(i) == Document(i, 1 + (i % 2), 1 + ((i \div 2) % 2), Missing)

RECURSIVE LinkedOfSet(_, _, _)
LinkedOfSet(S, i, n) ==
    IF i > n THEN <<>>
    ELSE (IF i \in S THEN <<LinkedDoc(i)>> ELSE <<>>) \o LinkedOfSet(S, i + 1, n)

Ids == 1..MaxIds

\* the lists of at most two identifiers
ShortLists == {<<>>} \cup {<<a>> : a \in Ids} \cup {<<a, b>> : a, b \in Ids}

\* Main(owner=..., helpers=[...], editor=...): pydantic runs the model
\* validator and construction ends with what the validator raises
Construct ==
    /\ op = "init"
    /\ \E o \in Ids, h \in ShortLists, e \in Ids :
        LET record == [owner |-> IdInput("oid", <<o>>),
                       helpers |-> IdInput("list", h),
                       editor |-> IdInput("oid", <<e>>)]
            r == validate_linked_values_existence(record, cfg)
        IN  /\ op' = "construct"
            /\ args' = record
            /\ out' = [error |-> r.error, missing |-> {}, unawaited |-> r.unawaited]
            /\ UNCHANGED <<db, cfg, held>>

\* any linked collection over the identifiers, and any of the LinkInfo classes
InitConstruct ==
    /\ db \in {[main |-> <<>>, linked |-> LinkedOfSet(S, 1, MaxIds)] : S \in SUBSET Ids}
    /\ cfg \in {[MainClass EXCEPT !.link_info_module = m] :
                    m \in {"link_info", "dependency_info", "both"}}
    /\ op = "init"
    /\ args = <<>>
    /\ out = NoCall
    /\ held = EmptyDict

NextConstruct == Construct \/ Return

SpecConstruct == InitConstruct /\ [][NextConstruct]_vars

(***************************************************************************)
(* Claims about record construction (checked under SpecConstruct).         *)
(***************************************************************************)
ExistingIds(docs) == {docs[i].id : i \in 1..Len(docs)}

\* the ids of a validated link that the linked collection does not hold
MissingOf(info) == Range(args[info.field_name].items) \ ExistingIds(db.linked)

FlaggedLinks ==
    {cfg.linked_fields_info[i] : i \in
        {j \in 1..Len(cfg.linked_fields_info) : cfg.linked_fields_info[j].validate}}

\* C4: constructing a record fails with a referential-integrity error listing
\* exactly the missing ids when a validated link holds an id the target
\* collection lacks, and succeeds when every linked id exists (an empty list
\* included); the outcome is decided before construction is reported.
C4_ExistenceValidated ==
    op = "construct" =>
        /\ (\A info \in FlaggedLinks : MissingOf(info) = {}) => out.error = "none"
        /\ (\E info \in FlaggedLinks : MissingOf(info) # {}) =>
                /\ out.error = "ValueError"
                /\ \E info \in FlaggedLinks :
                        MissingOf(info) # {} /\ out.missing = MissingOf(info)
        /\ out.unawaited = <<>>

(***************************************************************************)
(* Existence checks called directly (SpecExistence).                       *)
(***************************************************************************)
\* the lists of at most two distinct identifiers, ascending
ShortSets ==
    {<<>>} \cup {<<a>> : a \in Ids}
    \cup {l \in {<<a, b>> : a, b \in Ids} : l[1] < l[2]}

IdInputs ==
    {IdInput("none", <<>>), IdInput("tuple", <<1>>)}
    \cup {IdInput("oid", <<a>>) : a \in Ids}
    \cup {IdInput("list", l) : l \in ShortLists}
    \cup {IdInput("set", l) : l \in ShortSets}

\* the extra filters a caller writes: on a field, or on the identifier itself
ExtraFilters ==
    {EmptyDict, "name" :> EqCond(1), "_id" :> OpCond("$in", {1})}

\* the dicts a caller may pass as filters: one written for the call, or the
\* one it passed to the call before and still holds
FiltersAtHand == ExtraFilters \cup {held}

\* what a call leaves: its result, and the caller's dict as the call left it
ExistenceCall(name, x, passed, f, r) ==
    \E l \in ListsOf(r.missing) :
        /\ op' = name
        /\ args' = [ids |-> x, passed |-> passed, filters |-> f]
        /\ out' = [error |-> r.error, none |-> r.none, missing |-> l]
        /\ held' = IF passed THEN r.filters ELSE held
        /\ UNCHANGED <<db, cfg>>

\* cls.check_records_existence(record_id_or_list[, filters]) on the main class
CheckRecordsExistence ==
    /\ op = "init"
    /\ \E x \in IdInputs, passed \in BOOLEAN, f \in FiltersAtHand :
        /\ passed \/ f = EmptyDict
        /\ ExistenceCall("check_records_existence", x, passed, f,
                         check_records_existence(x, passed, f, db.main))

\* cls.validate_records_existence(record_id_or_list[, filters]) on the main class
ValidateRecordsExistence ==
    /\ op = "init"
    /\ \E x \in IdInputs, passed \in BOOLEAN, f \in FiltersAtHand :
        /\ passed \/ f = EmptyDict
        /\ ExistenceCall("validate_records_existence", x, passed, f,
                         validate_records_existence(x, passed, f, db.main))

InitExistence ==
    /\ db \in {[main |-> SeqOfSet(S, 1, MaxIds), linked |-> LinkedDocs] : S \in SUBSET Ids}
    /\ cfg = MainClass
    /\ op = "init"
    /\ args = <<>>
    /\ out = NoCall
    /\ held = EmptyDict

\* the caller takes the result and keeps the dict it passed
ReturnKeeping ==
    /\ op # "init"
    /\ op' = "init"
    /\ args' = <<>>
    /\ out' = NoCall
    /\ UNCHANGED <<db, cfg, held>>

NextExistence == CheckRecordsExistence \/ ValidateRecordsExistence \/ ReturnKeeping

SpecExistence == InitExistence /\ [][NextExistence]_vars

(***************************************************************************)
(* Claims about the existence checks (checked under SpecExistence).        *)
(***************************************************************************)
\* the input ids for which the collection holds no record satisfying q
IdsWithoutRecord(q) ==
    {i \in Range(args.ids.items) :
        ~\E k \in 1..Len(db.main) : db.main[k].id = i /\ Matches(db.main[k], q)}

\* q without its condition on the identifier
OtherKeys(q) == [k \in (DOMAIN q) \ {"_id"} |-> q[k]]

CheckCall == op = "check_records_existence" /\ args.ids.type \in {"oid", "list", "set"}

ReturnsExactly(expected) ==
    /\ out.error = "none"
    /\ out.none <=> expected = {}
    /\ ~out.none => Range(out.missing) = expected /\ Len(out.missing) = Cardinality(expected)

FilterableFieldInfo(field, operator, is_link, belongs_to_linked_class, linked_field, compile_dynamically) ==
    [field |-> field, operator |-> operator, is_link |-> is_link,
     belongs_to_linked_class |-> belongs_to_linked_class, linked_field |-> linked_field,
     compile_dynamically |-> compile_dynamically]

\* __filterable_fields_info__ of the main class: a field of its own under Eq
\* and under the range operators, its link under a membership operator, two
\* fields of the linked class B reached through the link 'owner', one of them
\* under the range operators too, and a key of B that is not compiled
\* dynamically.
\* No key is annotated SearchDetails.
filterable_fields_info ==
    [k \in {"name", "name_from", "name_to", "owner", "owner_name", "owner_city",
            "owner_city_from", "owner_city_to", "hidden"} |->
        CASE k = "name"       -> FilterableFieldInfo("name", "Eq", FALSE, "None", "None", TRUE)
          [] k = "name_from"  -> FilterableFieldInfo("name", "GTE", FALSE, "None", "None", TRUE)
          [] k = "name_to"    -> FilterableFieldInfo("name", "LTE", FALSE, "None", "None", TRUE)
          [] k = "owner"      -> FilterableFieldInfo("owner", "In", TRUE, "None", "None", TRUE)
          [] k = "owner_name" -> FilterableFieldInfo("name", "Eq", FALSE, "B", "owner", TRUE)
          [] k = "owner_city" -> FilterableFieldInfo("city", "Eq", FALSE, "B", "owner", TRUE)
          [] k = "owner_city_from" ->
                FilterableFieldInfo("city", "GTE", FALSE, "B", "owner", TRUE)
          [] k = "owner_city_to" ->
                FilterableFieldInfo("city", "LTE", FALSE, "B", "owner", TRUE)
          [] OTHER            -> FilterableFieldInfo("city", "Eq", FALSE, "B", "owner", FALSE)]

\* f'{field}.$id'
IdPath(field) == field \o ".$id"

\* a beanie operator applied to a key and a value: the one-key dict it is
Operator(operator, key, v) ==
    CASE operator = "Eq"  -> key :> EqCond(v.items[1])
      [] operator = "In"  -> key :> OpCond("$in", Range(v.items))
      [] operator = "All" -> key :> OpCond("$all", Range(v.items))
      [] operator = "GTE" -> key :> OpCond("$gte", v.items[1])
      [] OTHER            -> key :> OpCond("$lte", v.items[1])

filter_keys_KeepNotCompiled(dynamic_filters) ==
    {k \in DOMAIN dynamic_filters : dynamic_filters[k].type # "none"}

\* filter_keys: the keys dumped with exclude_none and without the keys that
\* are not compiled dynamically
filter_keys(dynamic_filters) ==
    {k \in DOMAIN dynamic_filters :
        dynamic_filters[k].type # "none" /\ filterable_fields_info[k].compile_dynamically}

\* the compilation as the loop leaves it: the error raised, the main dict,
\* the buckets per linked class and the linking field noted per linked class
CompileState(error, filters, on_linked, fields) ==
    [error |-> error, filters |-> filters,
     filters_on_linked_classes |-> on_linked, linked_classes_fields |-> fields]

\* the new filter of a link key (lines 480-489): filter_value[0] is a
\* TypeError on a set
LinkFilter(field_info, filter_value) ==
    LET new_filter_key == IdPath(field_info.field)
        membership == field_info.operator \in {"In", "All"}
    IN  IF membership /\ filter_value.type = "oid"
        THEN [error |-> "none", new |-> new_filter_key :> EqCond(filter_value.items[1])]
        ELSE IF membership /\ Len(filter_value.items) = 1
        THEN IF filter_value.type = "set"
             THEN [error |-> "TypeError", new |-> EmptyDict]
             ELSE [error |-> "none", new |-> new_filter_key :> EqCond(filter_value.items[1])]
        ELSE [error |-> "none", new |-> Operator(field_info.operator, new_filter_key, filter_value)]

\* lines 504-508: the membership test reads the main dict, the update goes to
\* filters_to_be_added_to
AddFilter(filters, target, new_filter_key, new_filter) ==
    IF new_filter_key \in DOMAIN filters
    THEN IF new_filter_key \notin DOMAIN target
         THEN [error |-> "KeyError", dict |-> target]
         ELSE IF target[new_filter_key].kind = "eq"
         THEN [error |-> "AttributeError", dict |-> target]
         ELSE IF new_filter[new_filter_key].kind = "eq"
         THEN [error |-> "TypeError", dict |-> target]
         ELSE [error |-> "none",
               dict |-> [target EXCEPT ![new_filter_key].ops =
                            DictUpdate(@, new_filter[new_filter_key].ops)]]
    ELSE [error |-> "none", dict |-> DictUpdate(target, new_filter)]

\* one turn of the loop over filter_keys (lines 476-508)
CompileKey(st, filter_key, dynamic_filters) ==
    LET field_info == filterable_fields_info[filter_key]
        filter_value == dynamic_filters[filter_key]
        linked == IF field_info.is_link
                  THEN LinkFilter(field_info, filter_value)
                  ELSE [error |-> "none",
                        new |-> Operator(field_info.operator, field_info.field, filter_value)]
        new_filter_key == IF field_info.is_link THEN IdPath(field_info.field)
                          ELSE field_info.field
        class == field_info.belongs_to_linked_class
    IN  IF linked.error # "none" THEN [st EXCEPT !.error = linked.error]
        ELSE IF class # "None"
        THEN LET bucket == IF class \in DOMAIN st.filters_on_linked_classes
                           THEN st.filters_on_linked_classes[class] ELSE EmptyDict
                 r == AddFilter(st.filters, bucket, new_filter_key, linked.new)
             IN  CompileState(r.error, st.filters,
                              DictUpdate(st.filters_on_linked_classes, class :> r.dict),
                              DictUpdate(st.linked_classes_fields,
                                         class :> field_info.linked_field))
        ELSE LET r == AddFilter(st.filters, st.filters, new_filter_key, linked.new)
             IN  [st EXCEPT !.error = r.error, !.filters = r.dict]

RECURSIVE CompileLoop(_, _, _)
CompileLoop(st, order, dynamic_filters) ==
    IF order = <<>> \/ st.error # "none" THEN st
    ELSE CompileLoop(CompileKey(st, Head(order), dynamic_filters), Tail(order),
                     dynamic_filters)

ResolveLinkedClassSkipEmpty(filters, linked_class_filters, linked_classes_field, linked) ==
    LET linked_records_ids == FindIds(linked_class_filters, linked)
    IN  IF linked_records_ids = <<>> THEN filters
        ELSE DictUpdate(filters, IdPath(linked_classes_field)
                                    :> OpCond("$in", Range(linked_records_ids)))

\* lines 511-514: the ids of the linked class's records that match its bucket
\* are folded in as an In on the linking field's identifier
ResolveLinkedClass(filters, linked_class_filters, linked_classes_field, linked) ==
    LET linked_records_ids == FindIds(linked_class_filters, linked)
    IN  DictUpdate(filters, IdPath(linked_classes_field)
                                :> OpCond("$in", Range(linked_records_ids)))

\* compile_dynamic_filters, its filter_keys iterated in the given order: the
\* error raised, the dict returned and the find_ids lookups made
compile_dynamic_filters(dynamic_filters, order, linked) ==
    LET st == CompileLoop(CompileState("none", EmptyDict, EmptyDict, EmptyDict), order,
                          dynamic_filters)
        resolved == IF "B" \in DOMAIN st.filters_on_linked_classes
                    THEN ResolveLinkedClass(st.filters, st.filters_on_linked_classes["B"],
                                            st.linked_classes_fields["B"], linked)
                    ELSE st.filters
    IN  IF st.error # "none"
        THEN [error |-> st.error, filters |-> EmptyDict, lookups |-> <<>>]
        ELSE [error |-> "none", filters |-> resolved,
              lookups |-> IF "B" \in DOMAIN st.filters_on_linked_classes
                          THEN <<st.filters_on_linked_classes["B"]>> ELSE <<>>]

\* a value of a dynamic-filters object
IntValue(v) == IdInput("int", <<v>>)

NoValue == IdInput("none", <<>>)

\* the dynamic-filters objects a caller builds
DynamicFilters ==
    [name : {NoValue, IntValue(1)},
     name_from : {NoValue, IntValue(2)},
     name_to : {NoValue, IntValue(1)},
     owner_city_from : {NoValue, IntValue(2)},
     owner_city_to : {NoValue, IntValue(1)},
     owner : {NoValue, IdInput("oid", <<1>>), IdInput("list", <<>>), IdInput("list", <<1>>),
              IdInput("list", <<1, 2>>), IdInput("set", <<1>>), IdInput("set", <<1, 2>>)},
     owner_name : {NoValue, IntValue(1)},
     owner_city : {NoValue, IntValue(1)},
     hidden : {NoValue, IntValue(1)}]

\* cls.compile_dynamic_filters(dynamic_filters), the caller having filled at
\* most MaxKeys of the compiled keys; a set is iterated in an order the caller
\* cannot choose
CompileDynamicFilters ==
    /\ op = "init"
    /\ \E dynamic_filters \in DynamicFilters :
        /\ Cardinality(filter_keys(dynamic_filters)) <= MaxKeys
        /\ \E order \in ListsOf(filter_keys(dynamic_filters)) :
            LET r == compile_dynamic_filters(dynamic_filters, order, db.linked)
            IN  /\ op' = "compile_dynamic_filters"
                /\ args' = dynamic_filters
                /\ out' = [error |-> r.error, filters |-> r.filters,
                           lookups |-> r.lookups, order |-> order]
                /\ UNCHANGED <<db, cfg, held>>

\* the main collection holds its first n documents, the linked collection any
\* documents over the identifiers
InitFilters ==
    /\ db \in {[main |-> SeqOfSet(1..n, 1, MaxDocs), linked |-> LinkedOfSet(T, 1, MaxIds)] :
                    n \in 0..MaxDocs, T \in SUBSET Ids}
    /\ cfg = MainClass
    /\ op = "init"
    /\ args = <<>>
    /\ out = NoCall
    /\ held = EmptyDict

NextFilters == CompileDynamicFilters \/ Return

SpecFilters == InitFilters /\ [][NextFilters]_vars

(***************************************************************************)
(* Claims about compile_dynamic_filters (checked under SpecFilters).       *)
(***************************************************************************)
Compiled == op = "compile_dynamic_filters"

\* the participating keys that belong to the linked class B
KeysOfB == {k \in filter_keys(args) : filterable_fields_info[k].belongs_to_linked_class = "B"}

\* the ids of the records of B that satisfy the predicate of key k
IdsOfBMatching(k) ==
    {db.linked[i].id : i \in
        {j \in 1..Len(db.linked) :
            Matches(db.linked[j],
                    Operator(filterable_fields_info[k].operator,
                             filterable_fields_info[k].field, args[k]))}}

\* the ids of the records of B that satisfy the predicates of all keys of B
IdsOfBMatchingAll ==
    {i \in ExistingIds(db.linked) : \A k \in KeysOfB : i \in IdsOfBMatching(k)}

MainMatching(q) == {db.main[i].id : i \in {j \in 1..Len(db.main) : Matches(db.main[j], q)}}

\* no two keys of B that take part name the same stored field of B
DistinctFieldsOfB ==
    \A k1, k2 \in KeysOfB :
        filterable_fields_info[k1].field = filterable_fields_info[k2].field => k1 = k2

\* C5: a filter key of linked collection B with predicate P compiles to the
\* clause "the linking field's identifier is one of the ids of the B records
\* matching P" (keys of B on different fields that take part share one clause,
\* over the records matching all of them); when no B record matches, the
\* compiled predicate matches no record of the main collection.
C5_CrossCollectionClause ==
    (Compiled /\ out.error = "none" /\ KeysOfB # {} /\ DistinctFieldsOfB) =>
        /\ "owner.$id" \in DOMAIN out.filters
        /\ out.filters["owner.$id"] = OpCond("$in", IdsOfBMatchingAll)
        /\ \A k \in KeysOfB :
                /\ out.filters["owner.$id"].ops["$in"] \subseteq IdsOfBMatching(k)
                /\ IdsOfBMatching(k) = {} => MainMatching(out.filters) = {}

\* C5 witness: one key of B was compiled against a non-empty B none of whose
\* records matches, and against a main collection that holds records
C5_Witness ==
    /\ Compiled
    /\ out.error = "none"
    /\ Cardinality(KeysOfB) = 1
    /\ filter_keys(args) = KeysOfB
    /\ db.linked # <<>>
    /\ db.main # <<>>
    /\ IdsOfBMatchingAll = {}
    /\ out.filters = "owner.$id" :> OpCond("$in", {})

\* the link key alone takes part
OnlyLinkKey == Compiled /\ filter_keys(args) = {"owner"}

\* C6: a link key under a membership operator compiles to an equality on the
\* link's identifier path when the value is one identifier or a list or set
\* holding exactly one, and to the membership predicate over all supplied
\* identifiers when the collection holds two or more.
C6_MembershipDegrade ==
    OnlyLinkKey =>
        LET v == args["owner"] IN
        /\ (v.type = "oid" \/ Len(v.items) = 1) =>
                out.error = "none" /\ out.filters = "owner.$id" :> EqCond(v.items[1])
        /\ (v.type \in {"list", "set"} /\ Len(v.items) >= 2) =>
                out.error = "none" /\ out.filters = "owner.$id" :> OpCond("$in", Range(v.items))

\* C9: the outcome of a compilation, predicate or error, is the outcome of
\* compiling the same object against the same store with the filter keys
\* iterated in any other order.
C9_OrderIndependent ==
    Compiled =>
        \A order \in ListsOf(filter_keys(args)) :
            LET again == compile_dynamic_filters(args, order, db.linked)
            IN  again.error = out.error /\ again.filters = out.filters

(***************************************************************************)
(* Projection pipelines (SpecProjection).                                  *)
(***************************************************************************)
\* a document class: its model fields in declaration order ('id' and
\* 'revision_id' come with every document), and its class-level attributes
DocumentClass(db_name, model_fields, fields_to_exclude, compact, links, always_fetch, never_fetch) ==
    [db_name |-> db_name, model_fields |-> model_fields,
     fields_to_exclude |-> fields_to_exclude,
     main_fields_for_compact_view |-> compact, linked_fields_info |-> links,
     always_fetch_fields |-> always_fetch, never_fetch_fields |-> never_fetch]

\* field_info.alias: every field is declared with an alias
Alias(field_name) ==
    CASE field_name = "id"   -> "_id"
      [] field_name = "city" -> "town"
      [] OTHER               -> field_name

\* simplify_special_annotations(annotation, filter_object_id=True).simplified
\* of the fields the classes declare
Simplified(field_name) ==
    CASE field_name = "id"      -> "oid"
      [] field_name = "owner"   -> "link"
      [] field_name = "helpers" -> "link_list"
      [] OTHER                  -> "normal"

\* a value of a projection dict: 1, 0, a field reference or an expression
Val(kind, ref, fields) == [kind |-> kind, ref |-> ref, fields |-> fields]

Include == Val("1", "", EmptyDict)

Exclude == Val("0", "", EmptyDict)

get_projection_value_by_annotation(field_name, field_prefix) ==
    LET field_referer == IF field_prefix # "" THEN "$" \o field_prefix \o "." \o Alias(field_name)
                         ELSE "$" \o Alias(field_name)
    IN  CASE Simplified(field_name) = "normal"    -> Val("ref", field_referer, EmptyDict)
          [] Simplified(field_name) = "oid"       -> Val("$toString", field_referer, EmptyDict)
          [] Simplified(field_name) = "link"      ->
                Val("$toString", field_referer \o ".$id", EmptyDict)
          [] OTHER -> Val("$map", field_referer,
                          "in" :> Val("$toString", "$$link.$id", EmptyDict))

\* a dict comprehension over the given fields: key and value map each field to
\* its key and its value (the keys are distinct)
DictOver(fields, key, value) ==
    [k \in {key[f] : f \in Range(fields)} |->
        value[CHOOSE f \in Range(fields) : key[f] = k]]

\* field -> alias, and field -> 'prefix.alias'
AliasOf(fields) == [f \in Range(fields) |-> Alias(f)]

PrefixedAliasOf(fields, prefix) == [f \in Range(fields) |-> prefix \o "." \o Alias(f)]

\* desired_fields[0]: a set cannot be subscripted, an empty sequence has no
\* first element, and model_fields (without 'revision_id') must hold the name
FirstFieldError(model_fields, desired_fields) ==
    IF desired_fields.type = "set" THEN "TypeError"
    ELSE IF desired_fields.items = <<>> THEN "IndexError"
    ELSE IF desired_fields.items[1] \notin Range(model_fields) THEN "KeyError"
    ELSE "none"

\* get_projection_pipeline_for_linked_field of a linked class, lines 167-219
get_projection_pipeline_for_linked_field(class, desired_fields, linked_field_name, is_list_of_links) ==
    LET model_fields == SelectSeq(class.model_fields, LAMBDA f : f # "revision_id")
        wanted == SelectSeq(model_fields, LAMBDA f : f \in Range(desired_fields.items))
        several == Len(desired_fields.items) > 1
        error == IF several THEN "none" ELSE FirstFieldError(model_fields, desired_fields)
        set_fields_dict ==
            IF is_list_of_links
            THEN linked_field_name :>
                    (IF several
                     THEN Val("$map", "$" \o linked_field_name,
                              "in" :> Val("object", "",
                                   DictOver(wanted, AliasOf(wanted),
                                        [f \in Range(wanted) |->
                                            get_projection_value_by_annotation(f, "$link")])))
                     ELSE Val("$map", "$" \o linked_field_name,
                              "in" :> get_projection_value_by_annotation(
                                            desired_fields.items[1], "$link")))
            ELSE IF several
            THEN DictOver(wanted, PrefixedAliasOf(wanted, linked_field_name),
                          [f \in Range(wanted) |->
                              get_projection_value_by_annotation(f, linked_field_name)])
            ELSE linked_field_name :>
                    get_projection_value_by_annotation(desired_fields.items[1], linked_field_name)
        unwanted == SelectSeq(model_fields, LAMBDA f : f \notin Range(desired_fields.items))
        projection_dict ==
            DictOver(unwanted, PrefixedAliasOf(unwanted, linked_field_name),
                     [f \in Range(unwanted) |-> Exclude])
    IN  IF error # "none"
        THEN [error |-> error, addFields |-> EmptyDict, project |-> EmptyDict]
        ELSE [error |-> "none", addFields |-> set_fields_dict, project |-> projection_dict]

\* get_default_projection_fields: model_fields.keys() - fields_to_exclude, a set
get_default_projection_fields(class) ==
    IdInput("set", SelectSeq(class.model_fields, LAMBDA f : f \notin class.fields_to_exclude))

\* the loop over the linked fields info in get_projection_pipeline, lines
\* 247-262: the error raised, the link fields flattened so far and the two
\* dicts collected
RECURSIVE LinksLoop(_, _, _, _)
LinksLoop(infos, c, fields_to_be_fetched, acc) ==
    IF infos = <<>> \/ acc.error # "none" THEN acc
    ELSE LET link_info == Head(infos)
             linked_document == c.classes[link_info.linked_document]
             compact_fields == linked_document.main_fields_for_compact_view
             r == get_projection_pipeline_for_linked_field(
                     linked_document,
                     IF compact_fields.items # <<>> THEN compact_fields
                     ELSE get_default_projection_fields(linked_document),
                     link_info.field_name, link_info.is_list)
         IN  IF link_info.field_name \notin fields_to_be_fetched
             THEN LinksLoop(Tail(infos), c, fields_to_be_fetched, acc)
             ELSE IF c.link_info_module = "link_info"
             THEN [acc EXCEPT !.error = "AttributeError"]
             ELSE IF c.classes["Main"].db_name # linked_document.db_name
             THEN LinksLoop(Tail(infos), c, fields_to_be_fetched, acc)
             ELSE IF r.error # "none" THEN [acc EXCEPT !.error = r.error]
             ELSE LinksLoop(Tail(infos), c, fields_to_be_fetched,
                            [error |-> "none",
                             flattened |-> acc.flattened \cup {link_info.field_name},
                             addFields |-> DictUpdate(acc.addFields, r.addFields),
                             project |-> DictUpdate(acc.project, r.project)])

ProjectionStage(stage, dict) == [stage |-> stage, dict |-> dict]

fields_to_be_fetched_AlwaysWins(cls, desired_fields, links_are_fetched, ignore) ==
    LET fetched == IF links_are_fetched THEN desired_fields ELSE {}
    IN  IF ignore THEN fetched
        ELSE (fetched \ cls.never_fetch_fields)
                \cup (desired_fields \cap cls.always_fetch_fields)

\* fields_to_be_fetched, lines 239-242: the desired fields when links are
\* fetched, then the desired always-fetch fields added and the never-fetch
\* fields taken away unless the caller opts out
fields_to_be_fetched(cls, desired_fields, links_are_fetched, ignore) ==
    LET fetched == IF links_are_fetched THEN desired_fields ELSE {}
    IN  IF ignore THEN fetched
        ELSE (fetched \cup (desired_fields \cap cls.always_fetch_fields))
                \ cls.never_fetch_fields

projection_pipeline_ProjectionFirst(links, final_projection) ==
    <<ProjectionStage("$project", final_projection)>>
    \o (IF NonEmpty(links.addFields)
        THEN <<ProjectionStage("$addFields", links.addFields)>> ELSE <<>>)
    \o (IF NonEmpty(links.project)
        THEN <<ProjectionStage("$project", links.project)>> ELSE <<>>)

\* the pipeline returned, lines 237 and 264-269: the $addFields and $project
\* stages of the links, each when its dict is not empty, before the $project
\* stage of the fields
projection_pipeline(links, final_projection) ==
    (IF NonEmpty(links.addFields)
     THEN <<ProjectionStage("$addFields", links.addFields)>> ELSE <<>>)
    \o (IF NonEmpty(links.project)
        THEN <<ProjectionStage("$project", links.project)>> ELSE <<>>)
    \o <<ProjectionStage("$project", final_projection)>>

\* get_projection_pipeline of the main class, lines 221-269
get_projection_pipeline(c, desired_fields, links_are_fetched, ignore_always_and_never_fetch_fields) ==
    LET cls == c.classes["Main"]
        wanted == SelectSeq(cls.model_fields, LAMBDA f : f \in desired_fields)
        projection_dict ==
            DictOver(wanted, AliasOf(wanted),
                     [f \in Range(wanted) |-> get_projection_value_by_annotation(f, "")])
        links == LinksLoop(cls.linked_fields_info, c,
                           fields_to_be_fetched(cls, desired_fields, links_are_fetched,
                                                ignore_always_and_never_fetch_fields),
                           [error |-> "none", flattened |-> {}, addFields |-> EmptyDict,
                            project |-> EmptyDict])
        final_projection ==
            DictUpdate(projection_dict, [f \in links.flattened |-> Include])
    IN  IF links.error # "none" THEN [error |-> links.error, pipeline |-> <<>>]
        ELSE [error |-> "none", pipeline |-> projection_pipeline(links, final_projection)]

\* a LinkInfo declaration naming the class it links to
LinkTo(field_name, is_list, linked_document) ==
    [field_name |-> field_name, is_list |-> is_list, linked_document |-> linked_document]

\* the main class: a name, a link 'owner' and a list of links 'helpers', both
\* to the class B
ProjectionMain(always_fetch, never_fetch) ==
    DocumentClass("db", <<"id", "revision_id", "name", "owner", "helpers">>, {"revision_id"},
                  IdInput("none", <<>>),
                  <<LinkTo("owner", FALSE, "B"), LinkTo("helpers", TRUE, "B")>>,
                  always_fetch, never_fetch)

\* the linked class B: a name and a city
ProjectionB(db_name, fields_to_exclude, compact) ==
    DocumentClass(db_name, <<"id", "revision_id", "name", "city">>, fields_to_exclude,
                  compact, <<>>, {}, {})

\* the declarations a program may make
ProjectionConfigs ==
    {[classes |-> [Main |-> ProjectionMain(always_fetch, never_fetch),
                   B |-> ProjectionB(db_name, fields_to_exclude, compact)],
      link_info_module |-> m] :
        always_fetch \in {{}, {"owner"}}, never_fetch \in {{}, {"helpers"}, {"owner"}},
        db_name \in {"db", "other"},
        fields_to_exclude \in {{"revision_id"}, {"revision_id", "id", "city"}},
        compact \in {IdInput("none", <<>>), IdInput("tuple", <<"name">>),
                     IdInput("tuple", <<"name", "city">>)},
        m \in {"dependency_info", "link_info"}}

\* Main.get_projection_pipeline(desired_fields, links_are_fetched, ignore...)
GetProjectionPipeline ==
    /\ op = "init"
    /\ \E desired_fields \in SUBSET {"id", "name", "owner", "helpers", "ghost"},
          links_are_fetched \in BOOLEAN, ignore \in BOOLEAN :
        LET r == get_projection_pipeline(cfg, desired_fields, links_are_fetched, ignore)
        IN  /\ op' = "get_projection_pipeline"
            /\ args' = [desired_fields |-> desired_fields,
                        links_are_fetched |-> links_are_fetched,
                        ignore_always_and_never_fetch_fields |-> ignore]
            /\ out' = r
            /\ UNCHANGED <<db, cfg, held>>

\* B.get_projection_pipeline_for_linked_field(desired_fields, 'owner', is_list)
GetProjectionPipelineForLinkedField ==
    /\ op = "init"
    /\ \E type \in {"list", "set"}, is_list_of_links \in BOOLEAN,
          items \in {<<>>, <<"name">>, <<"ghost">>, <<"name", "city">>, <<"id", "name">>} :
        LET r == get_projection_pipeline_for_linked_field(
                    cfg.classes["B"], IdInput(type, items), "owner", is_list_of_links)
        IN  /\ op' = "get_projection_pipeline_for_linked_field"
            /\ args' = [desired_fields |-> IdInput(type, items),
                        is_list_of_links |-> is_list_of_links]
            /\ out' = r
            /\ UNCHANGED <<db, cfg, held>>

InitProjection ==
    /\ db = [main |-> <<>>, linked |-> <<>>]
    /\ cfg \in ProjectionConfigs
    /\ op = "init"
    /\ args = <<>>
    /\ out = NoCall
    /\ held = EmptyDict

NextProjection == GetProjectionPipeline \/ GetProjectionPipelineForLinkedField \/ Return

SpecProjection == InitProjection /\ [][NextProjection]_vars

(***************************************************************************)
(* Claims about the projection pipelines (checked under SpecProjection).   *)
(***************************************************************************)
\* the fields of B a flattened link shows: the compact view, else the defaults
SelectedOfB ==
    LET B == cfg.classes["B"]
    IN  IF B.main_fields_for_compact_view.items # <<>>
        THEN Range(B.main_fields_for_compact_view.items)
        ELSE Range(get_default_projection_fields(B).items)

\* the link fields the call is to flatten
LinksToFlatten ==
    LET cls == cfg.classes["Main"]
        fetched == IF args.links_are_fetched THEN args.desired_fields ELSE {}
        selected == IF args.ignore_always_and_never_fetch_fields THEN fetched
                    ELSE (fetched \cup (args.desired_fields \cap cls.always_fetch_fields))
                            \ cls.never_fetch_fields
    IN  {l \in Range(cls.linked_fields_info) :
            l.field_name \in selected /\ cfg.classes[l.linked_document].db_name = cls.db_name}

\* the $addFields stage of the pipeline returned
AddFieldsOf(pipeline) ==
    IF pipeline # <<>> /\ pipeline[1].stage = "$addFields" THEN pipeline[1].dict ELSE EmptyDict

\* C7: a flattened link field (singular or list) is mapped directly to the
\* single value when exactly one non-identifier field of the target is
\* selected, and to an object keyed by exactly the selected fields' aliases when
\* two or more are, whether the selection is the target's compact-view tuple or
\* its default field set.
C7_Collapse ==
    (op = "get_projection_pipeline" /\ cfg.link_info_module = "dependency_info") =>
        \A l \in LinksToFlatten :
            LET name == l.field_name
                added == AddFieldsOf(out.pipeline)
                nested == {name \o "." \o Alias(f) : f \in Range(cfg.classes["B"].model_fields)}
            IN  /\ (Cardinality(SelectedOfB) = 1 /\ SelectedOfB # {"id"}) =>
                    /\ out.error = "none"
                    /\ name \in DOMAIN added
                    /\ \E f \in SelectedOfB :
                        added[name] =
                            IF l.is_list
                            THEN Val("$map", "$" \o name,
                                     "in" :> get_projection_value_by_annotation(f, "$link"))
                            ELSE get_projection_value_by_annotation(f, name)
                /\ Cardinality(SelectedOfB) >= 2 =>
                    /\ out.error = "none"
                    /\ IF l.is_list
                       THEN /\ name \in DOMAIN added
                            /\ added[name].fields["in"].kind = "object"
                            /\ DOMAIN added[name].fields["in"].fields
                                    = {Alias(f) : f \in SelectedOfB}
                       ELSE (DOMAIN added) \cap nested
                                    = {name \o "." \o Alias(f) : f \in SelectedOfB}

\* C8: the projection built by get_projection_pipeline holds no key for a
\* field the node does not declare, and a request naming a field the node does
\* not declare raises an error instead of returning a pipeline.
C8_AbsentFieldRaises ==
    op = "get_projection_pipeline" =>
        LET declared == Range(cfg.classes["Main"].model_fields)
        IN  /\ out.error = "none" =>
                DOMAIN out.pipeline[Len(out.pipeline)].dict \subseteq {Alias(f) : f \in declared}
            /\ ~(args.desired_fields \subseteq declared) => out.error # "none"

(***************************************************************************)
(* Claims about find_ids (checked under SpecFind).                         *)
(***************************************************************************)
\* the id_field values of the given records, converted to strings on demand
RECURSIVE IdFieldValues(_, _, _)
IdFieldValues(docs, id_field, as_str) ==
    IF docs = <<>> THEN <<>>
    ELSE LET v == FieldVal(Head(docs), id_field)
         IN  (IF v = Missing THEN <<>>
              ELSE IF as_str THEN <<ToString(v)>> ELSE <<v>>)
             \o IdFieldValues(Tail(docs), id_field, as_str)

\* the records that match the filters and survive the positioning stages
Survivors ==
    Outcomes(FindPipeline(args.filters)
                \o specify_desired_records_pipeline(args, cfg.has_time),
             db.main, LinkedCities(db.linked))

FindIdsReturned == op = "find_ids" /\ out.error = "none"

\* C11: find_ids returns the list of the id_field values of the records that
\* match the filters and survive the positioning stages (the empty list when
\* there is none), and with return_as_str the strings of those same values,
\* whichever id_field is chosen.
C11_IdFieldValues ==
    FindIdsReturned =>
        \E r \in Survivors :
            out.results = IdFieldValues(r, args.id_field, args.return_as_str)

(***************************************************************************)
(* get_dependent_records_count_per_model (SpecDependents).                 *)
(***************************************************************************)
MaxDependentRecords == 2   \* records a dependent collection may hold

\* a DependantDocInfo declaration: it has no attribute 'linked_document'
DependantDocInfo(document_name, field_name) ==
    [document_name |-> document_name, field_name |-> field_name,
     module_address |-> "app.models"]

\* the result of [{'$match': {f'{field_name}.$id': {'$in': [record_id]}}},
\* {'$count': 'count'}] on a dependent collection, given as the ids its
\* records link to: $count emits no document when nothing matches
CountAggregation(links, record_id) ==
    LET count == Cardinality({i \in 1..Len(links) : links[i] = record_id})
    IN  IF count = 0 THEN <<>> ELSE <<count>>

\* the loop of lines 586-598: line 598 reads dependant_doc_info.linked_document
RECURSIVE DependentsLoop(_, _, _, _)
DependentsLoop(infos, collections, record_id, linked_records) ==
    IF infos = <<>> THEN [error |-> "none", counts |-> linked_records]
    ELSE LET count_aggregation_result ==
                CountAggregation(collections[Head(infos).document_name], record_id)
         IN  IF count_aggregation_result # <<>>
             THEN [error |-> "AttributeError", counts |-> EmptyDict]
             ELSE DependentsLoop(Tail(infos), collections, record_id, linked_records)

get_dependent_records_count_per_model(dependent_models_info, collections, record_id) ==
    IF dependent_models_info = <<>> THEN [error |-> "none", counts |-> EmptyDict]
    ELSE DependentsLoop(dependent_models_info, collections, record_id, EmptyDict)

\* the sequences of at most MaxDependentRecords linked ids
RECURSIVE LinkLists(_)
LinkLists(n) ==
    IF n = 0 THEN {<<>>}
    ELSE LinkLists(n - 1) \cup {Append(l, i) : l \in LinkLists(n - 1), i \in {1, 2}}

\* cls.get_dependent_records_count_per_model(record_id)
GetDependentRecordsCountPerModel ==
    /\ op = "init"
    /\ \E record_id \in {1, 2} :
        LET r == get_dependent_records_count_per_model(cfg.dependent_models_info, db,
                                                       record_id)
        IN  /\ op' = "get_dependent_records_count_per_model"
            /\ args' = [record_id |-> record_id]
            /\ out' = [error |-> r.error, counts |-> r.counts]
            /\ UNCHANGED <<db, cfg, held>>

\* no dependent registered (None), one, or two; any dependent collections
InitDependents ==
    /\ db \in [{"Order", "Invoice"} -> LinkLists(MaxDependentRecords)]
    /\ cfg \in {[dependent_models_info |-> infos] :
                    infos \in {<<>>, <<DependantDocInfo("Order", "buyer")>>,
                               <<DependantDocInfo("Order", "buyer"),
                                 DependantDocInfo("Invoice", "payer")>>}}
    /\ op = "init"
    /\ args = <<>>
    /\ out = NoCall
    /\ held = EmptyDict

NextDependents == GetDependentRecordsCountPerModel \/ Return

SpecDependents == InitDependents /\ [][NextDependents]_vars

(***************************************************************************)
(* Claims about the dependent counts (checked under SpecDependents).       *)
(***************************************************************************)
\* the registered dependent collections holding a record linked to record_id
DependentsLinked ==
    {cfg.dependent_models_info[i].document_name : i \in
        {j \in 1..Len(cfg.dependent_models_info) :
            \E k \in 1..Len(db[cfg.dependent_models_info[j].document_name]) :
                db[cfg.dependent_models_info[j].document_name][k] = args.record_id}}

\* C12: get_dependent_records_count_per_model returns the mapping from the
\* name of every registered dependent collection with at least one record
\* linked to record_id to the number of such records, without an entry for a
\* collection with none, and the empty mapping when none is registered.
C12_DependentCounts ==
    op = "get_dependent_records_count_per_model" =>
        /\ out.error = "none"
        /\ DOMAIN out.counts = DependentsLinked
        /\ \A name \in DependentsLinked :
                out.counts[name] =
                    Cardinality({k \in 1..Len(db[name]) : db[name][k] = args.record_id})

(***************************************************************************)
(* More claims about compile_dynamic_filters (checked under SpecFilters).  *)
(***************************************************************************)
\* the key a filter key's predicate is stored under, and where it is stored
StoredKey(k) ==
    IF filterable_fields_info[k].is_link THEN IdPath(filterable_fields_info[k].field)
    ELSE filterable_fields_info[k].field

BucketOf(k) == filterable_fields_info[k].belongs_to_linked_class

\* the value-level condition of filter key k
ConditionOf(k) ==
    Operator(filterable_fields_info[k].operator, StoredKey(k), args[k])[StoredKey(k)]

\* the pairs of participating keys stored under one key of one dict
SharedKeyPairs ==
    {p \in filter_keys(args) \X filter_keys(args) :
        p[1] # p[2] /\ StoredKey(p[1]) = StoredKey(p[2]) /\ BucketOf(p[1]) = BucketOf(p[2])}

\* the dict the conditions of key k went to: the predicate returned, or the
\* bucket looked up in the linked class
DictOf(k) ==
    IF BucketOf(k) = "None" THEN out.filters
    ELSE IF out.lookups # <<>> THEN out.lookups[1] ELSE EmptyDict

\* C13: when two participating keys compile to predicates on the same stored
\* key of the main predicate or of one bucket, no error is raised and the
\* condition kept under that key is the conjunction of theirs, whichever key
\* is processed first.
C13_SharedKeyMerged ==
    Compiled =>
        \A p \in SharedKeyPairs :
            /\ out.error = "none"
            /\ StoredKey(p[1]) \in DOMAIN DictOf(p[1])
            /\ \A x \in 1..3 :
                    CondHolds(x, DictOf(p[1])[StoredKey(p[1])])
                        <=> (CondHolds(x, ConditionOf(p[1])) /\ CondHolds(x, ConditionOf(p[2])))

(***************************************************************************)
(* Hierarchy-merged class attributes (SpecHierarchy).                      *)
(***************************************************************************)
MaxChain == 2   \* document classes in the inheritance chain below ScarfDocument

\* what a class body assigns to a class attribute, or that it assigns nothing
Declared(entries) == [declared |-> TRUE, entries |-> entries]

NotDeclared == [declared |-> FALSE, entries |-> <<>>]

\* _cls.__attr__ of the class at the given level of the chain (level 1 derives
\* from ScarfDocument, where the attribute is None): a class that assigns
\* nothing inherits the value of its base
RECURSIVE ClassAttribute(_, _)
ClassAttribute(declarations, level) ==
    IF level = 0 THEN <<>>
    ELSE IF declarations[level].declared THEN declarations[level].entries
    ELSE ClassAttribute(declarations, level - 1)

\* the list comprehension of get_linked_fields_info over the classes
\* from..upto, least specific first: prevent_duplicate keeps the first entry
\* of a field name
RECURSIVE LinkedInfoFrom(_, _, _, _, _)
LinkedInfoFrom(declarations, from, upto, index, prevent_duplicate) ==
    IF from > upto THEN <<>>
    ELSE LET infos == ClassAttribute(declarations, from)
         IN  IF index > Len(infos)
             THEN LinkedInfoFrom(declarations, from + 1, upto, 1, prevent_duplicate)
             ELSE IF infos[index].field_name \in prevent_duplicate
             THEN LinkedInfoFrom(declarations, from, upto, index + 1, prevent_duplicate)
             ELSE <<infos[index]>>
                  \o LinkedInfoFrom(declarations, from, upto, index + 1,
                                    prevent_duplicate \cup {infos[index].field_name})

\* get_linked_fields_info of the class at the given level
get_linked_fields_info(declarations, level) ==
    LinkedInfoFrom(declarations, 1, level, 1, {})

\* get_filterable_fields_info of the class at the given level: the dict
\* comprehension assigns the keys least specific class first
RECURSIVE get_filterable_fields_info(_, _)
get_filterable_fields_info(declarations, level) ==
    IF level = 0 THEN EmptyDict
    ELSE DictUpdate(get_filterable_fields_info(declarations, level - 1),
                    ClassAttribute(declarations, level))

\* the __linked_fields_info__ a class at the given level may declare: its
\* links point to a class of its own level
LinkDeclarations(level) ==
    LET target == "B" \o ToString(level)
    IN  {NotDeclared, Declared(<<LinkTo("owner", FALSE, target)>>),
         Declared(<<LinkTo("helpers", TRUE, target)>>),
         Declared(<<LinkTo("owner", FALSE, target), LinkTo("helpers", TRUE, target)>>)}

\* the __filterable_fields_info__ a class at the given level may declare
FilterDeclarations(level) ==
    LET info(key) == FilterableFieldInfo(key \o "_" \o ToString(level), "Eq", FALSE,
                                         "None", "None", TRUE)
    IN  {NotDeclared, Declared("name" :> info("name")),
         Declared(("name" :> info("name")) @@ ("city" :> info("city")))}

\* cls.get_linked_fields_info() of a class of the chain
GetLinkedFieldsInfo ==
    /\ op = "init"
    /\ \E level \in 1..MaxChain :
        /\ op' = "get_linked_fields_info"
        /\ args' = [level |-> level]
        /\ out' = [error |-> "none", links |-> get_linked_fields_info(cfg.links, level),
                   filters |-> EmptyDict]
        /\ UNCHANGED <<db, cfg, held>>

\* cls.get_filterable_fields_info() of a class of the chain
GetFilterableFieldsInfo ==
    /\ op = "init"
    /\ \E level \in 1..MaxChain :
        /\ op' = "get_filterable_fields_info"
        /\ args' = [level |-> level]
        /\ out' = [error |-> "none", links |-> <<>>,
                   filters |-> get_filterable_fields_info(cfg.filters, level)]
        /\ UNCHANGED <<db, cfg, held>>

\* a chain of MaxChain classes, each declaring what it likes
InitHierarchy ==
    /\ db = [main |-> <<>>, linked |-> <<>>]
    /\ \E links \in [1..MaxChain -> UNION {LinkDeclarations(l) : l \in 1..MaxChain}],
          filters \in [1..MaxChain -> UNION {FilterDeclarations(l) : l \in 1..MaxChain}] :
        /\ \A l \in 1..MaxChain :
                links[l] \in LinkDeclarations(l) /\ filters[l] \in FilterDeclarations(l)
        /\ cfg = [links |-> links, filters |-> filters]
    /\ op = "init"
    /\ args = <<>>
    /\ out = NoCall
    /\ held = EmptyDict

NextHierarchy == GetLinkedFieldsInfo \/ GetFilterableFieldsInfo \/ Return

SpecHierarchy == InitHierarchy /\ [][NextHierarchy]_vars

(***************************************************************************)
(* Claims about the hierarchy merge (checked under SpecHierarchy).         *)
(***************************************************************************)
\* the link entries a class of the chain declares itself
OwnLinks(level) ==
    IF cfg.links[level].declared THEN Range(cfg.links[level].entries) ELSE {}

\* the filterable-field keys a class of the chain declares itself
OwnFilterKeys(level) ==
    IF cfg.filters[level].declared THEN DOMAIN cfg.filters[level].entries ELSE {}

\* the most specific class, up to the one asked, that declares a link of that name
LastLinkLevel(name) ==
    CHOOSE l \in 1..args.level :
        /\ \E e \in OwnLinks(l) : e.field_name = name
        /\ \A m \in (l + 1)..args.level : \A e \in OwnLinks(m) : e.field_name # name

LastFilterLevel(key) ==
    CHOOSE l \in 1..args.level :
        key \in OwnFilterKeys(l) /\ \A m \in (l + 1)..args.level : key \notin OwnFilterKeys(m)

\* C14: the merged link info and the merged filterable-field info of a class
\* hold every entry declared in its inheritance chain, once per field name or
\* key, and of two entries declared under one name by a more specific and a
\* less specific class they keep the more specific class's.
C14_HierarchyMerge ==
    /\ op = "get_linked_fields_info" =>
        /\ {out.links[i].field_name : i \in 1..Len(out.links)}
                = {e.field_name : e \in UNION {OwnLinks(l) : l \in 1..args.level}}
        /\ \A i, j \in 1..Len(out.links) :
                out.links[i].field_name = out.links[j].field_name => i = j
        /\ \A i \in 1..Len(out.links) :
                out.links[i] \in OwnLinks(LastLinkLevel(out.links[i].field_name))
    /\ op = "get_filterable_fields_info" =>
        /\ DOMAIN out.filters = UNION {OwnFilterKeys(l) : l \in 1..args.level}
        /\ \A key \in DOMAIN out.filters :
                out.filters[key] = cfg.filters[LastFilterLevel(key)].entries[key]

(***************************************************************************)
(* simplify_special_annotations (SpecAnnotations).                         *)
(***************************************************************************)
\* A declared type: what it holds ("int", "ObjectId" or "Link"), the generic
\* around it ("none"; list, set, tuple written with the builtins; "List",
\* "Set" written with typing) and how it is made optional ("no",
\* "Optional" for Optional[X] and X | None, "NoneFirst" for None | X).
Annotation(holds, generic, optional) ==
    [holds |-> holds, generic |-> generic, optional |-> optional]

Annotations ==
    {Annotation(h, g, o) : h \in {"int", "ObjectId", "Link"},
                           g \in {"none", "list", "List", "set", "Set", "tuple"},
                           o \in {"no", "Optional", "NoneFirst"}}

\* typing.get_origin(annotation): a union's origin is the union
get_origin(a) ==
    CASE a.optional # "no"             -> "Union"
      [] a.generic \in {"list", "List"} -> "list"
      [] a.generic \in {"set", "Set"}   -> "set"
      [] OTHER                          -> a.generic

\* isinstance(annotation.__args__[0], GenericAlias) of an optional type: the
\* first argument is None when None is written first, types.GenericAlias is
\* the class of the builtin generics and not of typing's nor of Link[...]
MainAnnIsGenericAlias(a) ==
    a.optional = "Optional" /\ a.generic \in {"list", "set", "tuple"}

AnnotationInfo(simplified, is_optional) ==
    [error |-> "none", simplified |-> simplified, is_optional |-> is_optional]

simplify_special_annotations(a, filter_object_id) ==
    IF filter_object_id /\ a.holds = "ObjectId"
    THEN IF get_origin(a) \in {"list", "set"} THEN AnnotationInfo("oid_list", FALSE)
         ELSE IF a.optional # "no"
         THEN AnnotationInfo(IF MainAnnIsGenericAlias(a) THEN "oid_list" ELSE "oid", TRUE)
         ELSE AnnotationInfo("oid", FALSE)
    ELSE IF a.holds # "Link" THEN AnnotationInfo("normal", FALSE)
    ELSE IF a.generic = "none" /\ a.optional = "no" THEN AnnotationInfo("link", FALSE)
    ELSE IF get_origin(a) = "list" THEN AnnotationInfo("link_list", FALSE)
    ELSE IF a.optional # "no"
    THEN AnnotationInfo(IF MainAnnIsGenericAlias(a) THEN "link_list" ELSE "link", TRUE)
    ELSE [error |-> "TypeError", simplified |-> "none", is_optional |-> FALSE]

\* simplify_special_annotations(annotation, filter_object_id) on the declared
\* type at hand
Simplify ==
    /\ op = "declared"
    /\ \E filter_object_id \in BOOLEAN :
        /\ op' = "simplify_special_annotations"
        /\ out' = simplify_special_annotations(args, filter_object_id)
        /\ UNCHANGED <<db, cfg, args, held>>

\* the result is taken; the declared type stays at hand
SimplifyReturn ==
    /\ op = "simplify_special_annotations"
    /\ op' = "declared"
    /\ out' = NoCall
    /\ UNCHANGED <<db, cfg, args, held>>

InitAnnotations ==
    /\ db = [main |-> <<>>, linked |-> <<>>]
    /\ cfg = MainClass
    /\ op = "declared"
    /\ args \in Annotations
    /\ out = NoCall
    /\ held = EmptyDict

NextAnnotations == Simplify \/ SimplifyReturn

SpecAnnotations == InitAnnotations /\ [][NextAnnotations]_vars

(***************************************************************************)
(* Claims about the annotations (checked under SpecAnnotations).           *)
(***************************************************************************)
AnnotationSimplified == op = "simplify_special_annotations"

\* C15: simplify_special_annotations raises for every set of links, an
\* optional set of links included, and never classifies one as link_list;
\* every other type holding links is classified link or link_list, with
\* is_optional set exactly when the declared type is optional.
C15_SetOfLinksRejected ==
    (AnnotationSimplified /\ args.holds = "Link") =>
        IF args.generic \in {"set", "Set"}
        THEN out.error # "none"
        ELSE /\ out.error = "none"
             /\ out.simplified \in {"link", "link_list"}
             /\ out.is_optional <=> args.optional # "no"

(***************************************************************************)
(* Claims about the positioning stages (checked under SpecFind).           *)
(***************************************************************************)
PositioningCall == op \in {"advanced_find", "find_ids"} /\ out.error = "none"

\* the kind and the number of every stage, in order
KindsAndSizes(stages) == [i \in 1..Len(stages) |-> <<stages[i].stage, stages[i].n>>]

\* the positioning sequence the arguments call for
ExpectedPositioning(a) ==
    (IF a.sort_order = "None" \/ (a.sort_order = "asc" /\ a.sort_key = "None")
     THEN <<>> ELSE <<<<"$sort", 0>>>>)
    \o (IF a.skip \notin {None, 0} THEN <<<<"$skip", a.skip>>>> ELSE <<>>)
    \o (IF ~a.random_sample /\ a.limit \notin {None, 0} THEN <<<<"$limit", a.limit>>>> ELSE <<>>)
    \o (IF a.random_sample THEN <<<<"$sample", a.limit>>>> ELSE <<>>)

\* the pipeline the other of the two operations builds for the same sort,
\* skip, limit and sample arguments
OtherPipeline ==
    IF op = "advanced_find"
    THEN FindIdsPipeline([FindIdsArgs(EmptyDict) EXCEPT
                            !.sort_key = args.sort_key, !.sort_order = args.sort_order,
                            !.skip = args.skip, !.limit = args.limit,
                            !.random_sample = args.random_sample], cfg.has_time)
    ELSE AdvancedFindQuery(
            [filters |-> [kind |-> "dict", pre |-> EmptyDict, post |-> EmptyDict],
             sort_key |-> args.sort_key, sort_order |-> args.sort_order,
             skip |-> args.skip, limit |-> args.limit, projection_pipeline |-> <<>>,
             fetch_links |-> FALSE, nesting_depth |-> None,
             nesting_depths_per_field |-> EmptyDict,
             ignore_always_and_never_fetch_fields |-> FALSE,
             random_sample |-> args.random_sample], cfg).pipeline

\* C16: advanced_find and find_ids build the same positioning stages from the
\* same sort, skip, limit and sample arguments: a sort stage, absent exactly
\* when no order is given or the order is ascending without a key, then skip
\* and limit, then a sample stage last when random_sample is set, and then
\* with no limit stage and with the limit as the sample size.
C16_PositioningSequence ==
    PositioningCall =>
        /\ KindsAndSizes(StagesOf(out.pipeline, PositioningKinds)) = ExpectedPositioning(args)
        /\ StagesOf(out.pipeline, PositioningKinds) = StagesOf(OtherPipeline, PositioningKinds)

\* C16 witness: find_ids sorted, skipped and sampled in one call
C16_Witness ==
    /\ op = "find_ids"
    /\ out.error = "none"
    /\ args.random_sample
    /\ args.skip = 1
    /\ args.sort_order = "desc"
    /\ Len(StagesOf(out.pipeline, PositioningKinds)) = 3

(***************************************************************************)
(* advanced_find on classes that declare always-fetch and never-fetch      *)
(* fields (SpecNesting).                                                   *)
(***************************************************************************)
\* the link fields a class may name in __always_fetch_fields__ and in
\* __never_fetch_fields__
NestingFields == {"owner", "helpers"}

\* a collection of one document; any choice of the two class attributes
InitNesting ==
    /\ db = [main |-> SeqOfSet({1}, 1, MaxDocs), linked |-> LinkedDocs]
    /\ cfg \in {[MainClass EXCEPT !.links = <<"owner", "helpers">>,
                                  !.always_fetch = A, !.never_fetch = N] :
                    A \in SUBSET NestingFields, N \in SUBSET NestingFields}
    /\ op = "init"
    /\ args = <<>>
    /\ out = NoCall
    /\ held = EmptyDict

NextNesting == AdvancedFind \/ Return

SpecNesting == InitNesting /\ [][NextNesting]_vars

(***************************************************************************)
(* Claims about the nesting depths (checked under SpecNesting).            *)
(***************************************************************************)
\* the depth the claim gives a field, Missing when it gives none
ClaimedDepth(f) ==
    LET caller == args.nesting_depths_per_field
    IN  IF f \in DOMAIN caller THEN caller[f]
        ELSE IF args.ignore_always_and_never_fetch_fields THEN Missing - 1
        ELSE IF f \in cfg.always_fetch THEN 1
        ELSE IF f \in cfg.never_fetch THEN 0
        ELSE Missing - 1

\* the depth a map gives a field, Missing - 1 when it does not name it
DepthIn(map, f) == IF f \in DOMAIN map THEN map[f] ELSE Missing - 1

\* the link fields the pipeline expands
ExpandedFields == {out.pipeline[i].field : i \in
                    {j \in 1..Len(out.pipeline) : out.pipeline[j].stage = "$lookup"}}

\* C17: the per-field depths advanced_find hands to the link expansion give a
\* field the caller's depth when the caller's map names it, else 1 when it is
\* an always-fetch field, else 0 when it is a never-fetch field; when the
\* caller opts out they are the caller's map; a link is expanded unless its
\* depth is 0, the depth of an unnamed link being 0 without fetch_links.
C17_EffectiveDepths ==
    GeneralPathCall =>
        /\ \A f \in NestingFields : DepthIn(out.depths, f) = ClaimedDepth(f)
        /\ args.ignore_always_and_never_fetch_fields =>
                out.depths = args.nesting_depths_per_field
        /\ \A f \in Range(cfg.links) :
                f \in ExpandedFields <=>
                    IF f \in DOMAIN out.depths THEN out.depths[f] # 0 ELSE args.fetch_links

\* C17 witness: without links fetched, 'owner' is both an always-fetch and a
\* never-fetch field and the caller's map names 'helpers' alone: 'owner' is
\* keeps depth 1, 'helpers' has the caller's 1, and both links are expanded
C17_Witness ==
    /\ GeneralPathCall
    /\ ~args.fetch_links
    /\ ~args.ignore_always_and_never_fetch_fields
    /\ "owner" \in cfg.always_fetch \cap cfg.never_fetch
    /\ cfg.never_fetch = NestingFields
    /\ DOMAIN args.nesting_depths_per_field = {"helpers"}
    /\ out.depths = [f \in NestingFields |-> 1]
    /\ ExpandedFields = NestingFields


\* a nesting override applies: the caller's map is not empty, or the class
\* names always-fetch or never-fetch fields and they are not opted out of
OverrideApplies ==
    \/ NonEmpty(args.nesting_depths_per_field)
    \/ /\ ~args.ignore_always_and_never_fetch_fields
       /\ cfg.always_fetch \cup cfg.never_fetch # {}

\* C18: advanced_find takes the fast path (one query on the pre-fetch and
\* post-fetch predicates merged, then the positioning stages, then the
\* caller's projection stages, no link expansion) exactly when fetch_links is
\* false and no nesting override applies, a non-empty caller map being an
\* override whether or not always/never-fetch handling is opted out.
C18_FastPath ==
    (op = "advanced_find" /\ out.error = "none") =>
        /\ out.path = "fast" <=> (~args.fetch_links /\ ~OverrideApplies)
        /\ out.path = "fast" =>
            out.pipeline = FindPipeline(DictUpdate(args.filters.pre, args.filters.post))
                           \o StagesOf(out.pipeline, PositioningKinds)
                           \o CallerStagesOf(out.pipeline)

(***************************************************************************)
(* Claims about the stages of get_projection_pipeline (SpecProjection).    *)
(***************************************************************************)
PipelineReturned == op = "get_projection_pipeline" /\ out.error = "none"

\* the declared link fields the pipeline flattens: those the assign stages
\* write, whole or key by key
FlattenedIn(pipeline) ==
    {l.field_name : l \in
        {i \in Range(cfg.classes["Main"].linked_fields_info) :
            \E n \in 1..Len(pipeline) :
                /\ pipeline[n].stage = "$addFields"
                /\ \E k \in DOMAIN pipeline[n].dict :
                    k \in {i.field_name}
                           \cup {i.field_name \o "." \o Alias(f) :
                                    f \in Range(cfg.classes[i.linked_document].model_fields)}}}

\* a stage that removes: a $project whose values are all 0
RemoveStage(st) ==
    st.stage = "$project" /\ NonEmpty(st.dict) /\ \A k \in DOMAIN st.dict : st.dict[k] = Exclude

\* the projection of the fields: a $project that removes nothing
FieldProjectionStage(st) ==
    st.stage = "$project" /\ \A k \in DOMAIN st.dict : st.dict[k] # Exclude

\* C19: in every pipeline get_projection_pipeline returns, the assign and
\* remove stages of link flattening come before the projection of the
\* fields, which appears exactly once and last and keeps every flattened link.
C19_FlattenBeforeProjection ==
    PipelineReturned =>
        LET n == Len(out.pipeline)
        IN  /\ n >= 1
            /\ FieldProjectionStage(out.pipeline[n])
            /\ \A i \in 1..(n - 1) :
                    out.pipeline[i].stage = "$addFields" \/ RemoveStage(out.pipeline[i])
            /\ \A f \in FlattenedIn(out.pipeline) :
                    f \in DOMAIN out.pipeline[n].dict /\ out.pipeline[n].dict[f] = Include

\* C19 witness: both links are flattened, with an assign and a remove stage
\* before the projection of the fields
C19_Witness ==
    /\ PipelineReturned
    /\ Len(out.pipeline) = 3
    /\ FlattenedIn(out.pipeline) = {"owner", "helpers"}
    /\ RemoveStage(out.pipeline[2])

\* the link fields the claim has flattened
ClaimedFlattened ==
    LET cls == cfg.classes["Main"]
        selected(f) ==
            IF args.ignore_always_and_never_fetch_fields THEN args.links_are_fetched
            ELSE /\ args.links_are_fetched \/ f \in cls.always_fetch_fields
                 /\ f \notin cls.never_fetch_fields
    IN  {l.field_name : l \in
            {i \in Range(cls.linked_fields_info) :
                /\ i.field_name \in args.desired_fields
                /\ cfg.classes[i.linked_document].db_name = cls.db_name
                /\ selected(i.field_name)}}

\* C20: get_projection_pipeline flattens a field exactly when it is a
\* declared link among the desired fields, its target is in the collection's
\* own database, and it is selected: links are fetched or it is an
\* always-fetch field, and it is not a never-fetch field; with the opt-out,
\* when links are fetched.  No field outside the desired fields is flattened
\* or projected.
C20_FlattenSelection ==
    PipelineReturned =>
        /\ FlattenedIn(out.pipeline) = ClaimedFlattened
        /\ FlattenedIn(out.pipeline) \subseteq args.desired_fields
        /\ DOMAIN out.pipeline[Len(out.pipeline)].dict
                \subseteq {Alias(f) : f \in args.desired_fields}

\* C20 witness: links are fetched, 'owner' is an always-fetch and a
\* never-fetch field, 'owner' and 'helpers' are desired, and 'helpers' alone
\* is flattened; the opt-out is not taken
C20_Witness ==
    /\ PipelineReturned
    /\ args.links_are_fetched
    /\ ~args.ignore_always_and_never_fetch_fields
    /\ {"owner", "helpers"} \subseteq args.desired_fields
    /\ cfg.classes["Main"].always_fetch_fields = {"owner"}
    /\ cfg.classes["Main"].never_fetch_fields = {"owner"}
    /\ FlattenedIn(out.pipeline) = {"helpers"}

(***************************************************************************)
(* Claims about the keys that take part (checked under SpecFilters).       *)
(***************************************************************************)
\* key k of the object d is present with a value and is compiled dynamically
TakesPart(d, k) == d[k].type # "none" /\ filterable_fields_info[k].compile_dynamically

\* the object with every key that does not take part left unset
WithoutTheRest(d) == [k \in DOMAIN d |-> IF TakesPart(d, k) THEN d[k] ELSE NoValue]

\* C21: a filter key contributes to the compiled predicate, or to the lookup
\* on its linked class, exactly when it holds a value and is not marked as not
\* compiled dynamically; the other keys change neither the outcome nor the
\* lookups made.
C21_ParticipatingKeys ==
    Compiled =>
        LET again == compile_dynamic_filters(
                        WithoutTheRest(args),
                        SelectSeq(out.order, LAMBDA k : TakesPart(args, k)), db.linked)
        IN  /\ again.error = out.error
            /\ again.filters = out.filters
            /\ again.lookups = out.lookups
            /\ out.error = "none" =>
                \A k \in DOMAIN args :
                    /\ TakesPart(args, k) => StoredKey(k) \in DOMAIN DictOf(k)
                    /\ (\A j \in DOMAIN args : ~TakesPart(args, j)) =>
                            out.filters = EmptyDict /\ out.lookups = <<>>

\* C21 witness: the key that is not compiled dynamically holds a value, a key
\* of the main class takes part, a key of B is unset, and the predicate
\* returned is the main key's alone, no lookup made
C21_Witness ==
    /\ Compiled
    /\ out.error = "none"
    /\ args["hidden"] # NoValue
    /\ args["owner_name"] = NoValue
    /\ filter_keys(args) = {"name"}
    /\ DOMAIN out.filters = {"name"}
    /\ out.lookups = <<>>
    /\ db.linked # <<>>


\* the records of the main collection the predicate returned matches
MatchedByResult == {i \in 1..Len(db.main) : Matches(db.main[i], out.filters)}

\* the ids of the records of B that match the bucket looked up
IdsOfBMatchingBucket ==
    {db.linked[i].id : i \in {j \in 1..Len(db.linked) : Matches(db.linked[j], out.lookups[1])}}

\* C22: the predicate compile_dynamic_filters returns is the conjunction of
\* the participating conditions: a main record matching it satisfies every
\* condition on the main class's own fields and links, and links through the
\* bucket's linking field to a record of B matching the bucket; the clause of
\* resolved ids discards no direct condition on the same link.
C22_Conjunction ==
    (Compiled /\ out.error = "none") =>
        \A i \in MatchedByResult :
            /\ \A k \in filter_keys(args) :
                    BucketOf(k) = "None" =>
                        Matches(db.main[i], StoredKey(k) :> ConditionOf(k))
            /\ KeysOfB # {} =>
                    /\ out.lookups # <<>>
                    /\ \A k \in KeysOfB :
                        FieldVal(db.main[i], IdPath(filterable_fields_info[k].linked_field))
                            \in IdsOfBMatchingBucket

(***************************************************************************)
(* Claims about the filters dict of the existence checks (SpecExistence).  *)
(***************************************************************************)
FiltersPassed ==
    op \in {"check_records_existence", "validate_records_existence"} /\ args.passed

\* the call made again, on a dict without what earlier calls may have left in it
FreshCall ==
    IF op = "check_records_existence"
    THEN check_records_existence(args.ids, TRUE, OtherKeys(args.filters), db.main)
    ELSE validate_records_existence(args.ids, TRUE, OtherKeys(args.filters), db.main)

SameResultAsFresh ==
    /\ out.error = FreshCall.error
    /\ out.none = FreshCall.none
    /\ Range(out.missing) = FreshCall.missing

\* C23: check_records_existence and validate_records_existence leave the
\* filters dict the caller passes as it was, so a dict reused over several
\* calls gives each call the result of a call with a fresh copy.
C23_FiltersUnchanged ==
    FiltersPassed =>
        /\ held = args.filters
        /\ SameResultAsFresh

(***************************************************************************)
(* Claims about advanced_find without filters (checked under SpecFind).    *)
(***************************************************************************)
\* advanced_find was called with filters left at its default and with the
\* other arguments as it requires them
NoFiltersCall ==
    /\ op = "advanced_find"
    /\ args.filters = NoFilters
    /\ ~(args.random_sample /\ NotLimit(args.limit))

\* the same call with empty pre-fetch and post-fetch predicates
EmptyFiltersQuery ==
    AdvancedFindQuery([args EXCEPT !.filters = [kind |-> "adv", pre |-> EmptyDict,
                                                post |-> EmptyDict]], cfg)

\* C24: advanced_find called without filters behaves as a call with empty
\* pre-fetch and post-fetch predicates: it raises nothing and returns the
\* positioned records of the whole collection.
C24_DefaultFilters ==
    NoFiltersCall =>
        /\ out.error = "none"
        /\ EmptyFiltersQuery.error = "none"
        /\ out.results \in Outcomes(EmptyFiltersQuery.pipeline, db.main, LinkedCities(db.linked))

====
